---- MODULE Spec2Model ----
(***************************************************************************)
(* Milo price tracker: the scrape cycle, the in-memory snapshot cache and  *)
(* its readers (complete_backend.py), the cross-platform consolidation     *)
(* (consolidate_products) and the platform scrapers with their flash-sale  *)
(* detectors (multi_platform_scraper.py).                                  *)
(*                                                                         *)
(* Conventions.  Text is a sequence of one-character strings, so slicing,  *)
(* lower-casing, space removal and substring search are computed as the    *)
(* code computes them.  Python's None is the empty tuple None and a        *)
(* present value x is Some(x) = <<x>>.  Money is an integer number of      *)
(* cents.  A dict is a sequence of [key, value] items in insertion order.  *)
(***************************************************************************)
EXTENDS Integers, Sequences, FiniteSets, TLC

VARIABLES
    \* ---- the backend process (complete_backend.py) ----
    cache,                  \* the module-level cache dict
    now,                    \* datetime.now(), in seconds since start
    pc,                     \* per thread: where it is in its handler
    handler,                \* per thread: the entry point it is running
    all_products_by_platform, \* per thread: local of scrape_all_platforms
    cycle_result,           \* per thread: local "consolidated" of the cycle
    cycles,                 \* scrape cycles started so far
    \* history, read by the properties only
    outcome,                \* per thread: what each scraper did this cycle
    last_completed,         \* what the last completed cycle published
    \* ---- consolidation (complete_backend.consolidate_products) ----
    products_by_platform,   \* the argument of the call: dict platform -> list
    consolidated,           \* None, or Some(the returned list of entries)
    consolidated_before,    \* None, or Some(what the call before it returned
                            \* on the same dict)
    calls,                  \* number of calls made so far
    \* ---- a caller of get_cached_data ----
    cached_data,            \* None, or Some(what the last call returned)
    \* ---- a run of a scraper's scrape (multi_platform_scraper.py) ----
    scraper,                \* self.platform of the scraper that runs
    soup_selected,          \* what the three container selectors match on
                            \* the page, in document order
    containers,             \* the local list "containers"
    max_products,           \* the argument max_products
    position,               \* index of the loop over containers[:max_products]
    scrape_products,        \* the local list "products"
    scrape_pc,              \* where the call is: goto, loop, returned
    \* ---- requests served one at a time ----
    request,                \* the last request served: its route and platform
    response,               \* None, or Some(its status and body)
    scraped,                \* the platforms whose scrape() it had run
    \* ---- a call of BaseScraper._categorize_milo_product ----
    product_name,           \* the argument name
    product_type,           \* None, or Some(the returned category)
    \* ---- a call of a flash-sale detector (_detect_*_flash_sale) ----
    detector,               \* the platform whose detector runs
    detect_container,       \* the argument container
    detect_current_price,   \* the argument current_price
    detect_original_price,  \* the argument original_price
    detect_info,            \* the local flash_info
    detect_pc,              \* number of checks made so far
    detect_result,          \* None, or Some(the returned flash_info)
    \* history, read by the properties only
    detect_trace,           \* flash_info at entry and after each check
    \* ---- a call of BaseScraper._extract_price ----
    extract_text,           \* the argument text
    extract_result,         \* None, or Some(the returned price, in cents)
    \* history, read by the properties only
    extract_value           \* the value, in cents, of the first numeral
                            \* the text was written with; None without one

backendVars ==
    <<cache, now, pc, handler, all_products_by_platform, cycle_result,
      cycles, outcome, last_completed>>

\* the thread-side part of the backend: everything but the cache and the clock
threadVars ==
    <<pc, handler, all_products_by_platform, cycle_result, cycles, outcome,
      last_completed>>

consVars == <<products_by_platform, consolidated, consolidated_before, calls>>

freshVars == <<cached_data>>

scrapeVars ==
    <<scraper, soup_selected, containers, max_products, position, scrape_products,
      scrape_pc>>

queryVars == <<request, response, scraped>>

categorizeVars == <<product_name, product_type>>

detectVars ==
    <<detector, detect_container, detect_current_price, detect_original_price,
      detect_info, detect_pc, detect_result, detect_trace>>

extractVars == <<extract_text, extract_result, extract_value>>

vars ==
    <<backendVars, consVars, freshVars, scrapeVars, queryVars, categorizeVars,
      detectVars, extractVars>>

\* what the steps of each part leave alone
nonBackendVars ==
    <<consVars, freshVars, scrapeVars, queryVars, categorizeVars,
      detectVars, extractVars>>

nonConsVars ==
    <<backendVars, freshVars, scrapeVars, queryVars, categorizeVars,
      detectVars, extractVars>>

nonFreshVars ==
    <<threadVars, consVars, scrapeVars, queryVars, categorizeVars,
      detectVars, extractVars>>

nonScrapeVars ==
    <<backendVars, consVars, freshVars, queryVars, categorizeVars,
      detectVars, extractVars>>

nonQueryVars ==
    <<consVars, freshVars, scrapeVars, categorizeVars, detectVars,
      extractVars>>

nonCategorizeVars ==
    <<backendVars, consVars, freshVars, scrapeVars, queryVars, detectVars,
      extractVars>>

nonDetectVars ==
    <<backendVars, consVars, freshVars, scrapeVars, queryVars, categorizeVars,
      extractVars>>

nonExtractVars ==
    <<backendVars, consVars, freshVars, scrapeVars, queryVars, categorizeVars,
      detectVars>>

-----------------------------------------------------------------------------
(* Generic helpers *)

None == <<>>

Some(x) == <<x>>

Min(a, b) == IF a <= b THEN a ELSE b

\* the same sequence, written out element by element
AsTuple(s) == s \o <<>>

RECURSIVE Concat(_)
Concat(seqs) ==
    IF seqs = <<>> THEN <<>> ELSE Head(seqs) \o Concat(Tail(seqs))

Reverse(s) == AsTuple([i \in 1..Len(s) |-> s[Len(s) + 1 - i]])

\* All sequences over S of length 0..n
SeqsUpTo(S, n) == UNION {[1..k -> S] : k \in 0..n}

-----------------------------------------------------------------------------
(* Text *)

UpperChars ==
    <<"A","B","C","D","E","F","G","H","I","J","K","L","M",
      "N","O","P","Q","R","S","T","U","V","W","X","Y","Z">>

LowerChars ==
    <<"a","b","c","d","e","f","g","h","i","j","k","l","m",
      "n","o","p","q","r","s","t","u","v","w","x","y","z">>

\* str.lower() on one ASCII character
LowerTable ==
    [c \in {UpperChars[i] : i \in 1..Len(UpperChars)} |->
        LowerChars[CHOOSE i \in 1..Len(UpperChars) : UpperChars[i] = c]]

LowerChar(c) == IF c \in DOMAIN LowerTable THEN LowerTable[c] ELSE c

\* str.lower()
Lower(s) == AsTuple([i \in 1..Len(s) |-> LowerChar(s[i])])

\* s[:n]
Prefix(s, n) == SubSeq(s, 1, Min(n, Len(s)))

\* s.replace(c, '') for a one-character c
RemoveChar(s, c) == SelectSeq(s, LAMBDA x : x # c)

-----------------------------------------------------------------------------
(* The five platforms, in the order of the scrapers dict *)

Platforms == <<"fairprice", "shopee", "lazada", "shengsiong", "giant">>

PlatformSet == {Platforms[i] : i \in 1..Len(Platforms)}

-----------------------------------------------------------------------------
(* consolidate_products *)

KEY_PREFIX == 20

\* mutant: the key is cut after the spaces are removed
GroupKeyStripFirst(name) == Prefix(RemoveChar(Lower(name), " "), KEY_PREFIX)

\* key = product['name'][:20].lower().replace(' ', '')
GroupKey(name) == RemoveChar(Lower(Prefix(name, KEY_PREFIX)), " ")

\* all_products: every platform's list, in dict order
AllProducts(by_platform) ==
    Concat([i \in 1..Len(by_platform) |-> by_platform[i].value])

\* price_info of one product; the three flash-sale details are copied only
\* when the product carries them (and flash_sale_end only when truthy)
PriceInfo(product) ==
    LET base == [platform      |-> product.platform,
                 price         |-> product.price,
                 originalPrice |-> product.original_price,
                 flashSale     |-> product.flash_sale,
                 url           |-> product.url]
        with_type ==
            IF "flash_sale_type" \in DOMAIN product
            THEN ("flashSaleType" :> product.flash_sale_type) @@ base
            ELSE base
        with_end ==
            IF "flash_sale_end" \in DOMAIN product
               /\ product.flash_sale_end # None
               /\ product.flash_sale_end # Some(<<>>)
            THEN ("flashSaleEnd" :> product.flash_sale_end[1]) @@ with_type
            ELSE with_type
    IN  IF "discount_percent" \in DOMAIN product
        THEN ("discountPercent" :> product.discount_percent) @@ with_end
        ELSE with_end

\* index of key in seen_names (a dict: a sequence of [key, value] items), or 0
IndexOfKey(seen_names, key) ==
    IF \E i \in 1..Len(seen_names) : seen_names[i].key = key
    THEN CHOOSE i \in 1..Len(seen_names) : seen_names[i].key = key
    ELSE 0

\* mutant: a later product of a key that was seen replaces the prices of the
\* entry instead of being appended to them
GroupStepLatestOffer(st, product) ==
    LET key   == GroupKey(product.name)
        fresh == IndexOfKey(st.seen_names, key) = 0
        seen  == IF fresh
                 THEN Append(st.seen_names,
                             [key   |-> key,
                              value |-> [id     |-> st.product_id,
                                         name   |-> product.name,
                                         type   |-> product.type,
                                         prices |-> <<>>]])
                 ELSE st.seen_names
        i     == IndexOfKey(seen, key)
    IN  [seen_names |->
            [seen EXCEPT ![i].value.prices = <<PriceInfo(product)>>],
         product_id |-> IF fresh THEN st.product_id + 1 ELSE st.product_id]

\* one iteration of "for product in all_products", on the loop state
\* [seen_names, product_id]
GroupStep(st, product) ==
    LET key   == GroupKey(product.name)
        fresh == IndexOfKey(st.seen_names, key) = 0
        seen  == IF fresh
                 THEN Append(st.seen_names,
                             [key   |-> key,
                              value |-> [id     |-> st.product_id,
                                         name   |-> product.name,
                                         type   |-> product.type,
                                         prices |-> <<>>]])
                 ELSE st.seen_names
        i     == IndexOfKey(seen, key)
    IN  [seen_names |->
            [seen EXCEPT ![i].value.prices = Append(@, PriceInfo(product))],
         product_id |-> IF fresh THEN st.product_id + 1 ELSE st.product_id]

RECURSIVE GroupLoop(_, _)
GroupLoop(st, products) ==
    IF products = <<>> THEN st
    ELSE LET after == GroupStep(st, Head(products))
         IN  \* the iteration is complete before the next one begins
             IF after.product_id >= st.product_id
             THEN GroupLoop(after, Tail(products))
             ELSE after

\* mutant: ids are the position of the entry's first product in all_products
consolidate_products_id_by_position(by_platform) ==
    LET all == AllProducts(by_platform)
        st  == GroupLoop([seen_names |-> <<>>, product_id |-> 1], all)
        pos(k) == CHOOSE i \in 1..Len(all) :
                     /\ GroupKey(all[i].name) = k
                     /\ \A j \in 1..(i - 1) : GroupKey(all[j].name) # k
    IN  [i \in 1..Len(st.seen_names) |->
            [st.seen_names[i].value EXCEPT !.id = pos(st.seen_names[i].key)]]

\* mutant: product_id is a module-level counter that runs on from call to call
consolidate_products_running_id(by_platform) ==
    LET st == GroupLoop([seen_names |-> <<>>, product_id |-> 1 + calls],
                        AllProducts(by_platform))
    IN  [i \in 1..Len(st.seen_names) |-> st.seen_names[i].value]

\* consolidated = list(seen_names.values())
consolidate_products(by_platform) ==
    LET st == GroupLoop([seen_names |-> <<>>, product_id |-> 1],
                        AllProducts(by_platform))
    IN  [i \in 1..Len(st.seen_names) |-> st.seen_names[i].value]


-----------------------------------------------------------------------------
(* Listings used as input of consolidate_products.  A listing is the dict a
   scraper appends (scraped_at, which nothing reads, is left out); Shopee and
   Lazada listings carry flash_sale_type, flash_sale_end, discount_percent.
   discount_percent is in tenths of a percent. *)

NameSachet20 ==
    <<"M","i","l","o"," ","3","i","n","1"," ","I","n","s","t","a","n","t"," ",
      "S","a","c","h","e","t"," ","2","0","x","3","3","g">>

NameSachetBundle ==
    <<"M","i","l","o"," ","3","i","n","1"," ","I","n","s","t","a","n","t"," ",
      "S","a","c","h","e","t"," ","B","u","n","d","l","e">>

NameSachetUht ==
    <<"M","I","L","O"," ","3","I","N","1"," ","I","N","S","T","A","N","T"," ",
      "S","A","C","H","E","T"," ","U","H","T">>

NameActivSpaced ==
    <<"M","i","l","o"," ","A","c","t","i","v"," ","G","o"," ",
      "P","o","w","d","e","r"," ","T","i","n">>

NameActivTight ==
    <<"M","i","l","o","A","c","t","i","v","G","o",
      "P","o","w","d","e","r","T","i","n">>

NameUht == <<"M","i","l","o"," ","U","H","T">>

NameUhtTight == <<"m","i","l","o","U","H","T">>

BasicListing(platform, name, type, price, original_price, url) ==
    [name           |-> name,
     type           |-> type,
     price          |-> price,
     original_price |-> original_price,
     flash_sale     |-> original_price > price /\ price > 0,
     url            |-> url,
     platform       |-> platform]

FlashListing(platform, name, type, price, original_price, url, flash_sale, flash_sale_type, flash_sale_end, discount_percent) ==
    [name             |-> name,
     type             |-> type,
     price            |-> price,
     original_price   |-> original_price,
     flash_sale       |-> flash_sale,
     flash_sale_type  |-> flash_sale_type,
     flash_sale_end   |-> flash_sale_end,
     discount_percent |-> discount_percent,
     url              |-> url,
     platform         |-> platform]

\* The products each platform's search page shows, in page order; one url
\* per product and platform
Catalog(platform) ==
    CASE platform = "fairprice" ->
            <<BasicListing("fairprice", NameSachet20, "powder", 1290, 1290,
                           "https://www.fairprice.com.sg/p/sachet-20"),
              BasicListing("fairprice", NameSachetBundle, "powder", 2450, 2900,
                           "https://www.fairprice.com.sg/p/sachet-bundle")>>
      [] platform = "shopee" ->
            <<FlashListing("shopee", NameSachetUht, "uht", 1000, 1500,
                           "https://shopee.sg/sachet-uht",
                           TRUE, "flash_sale", Some(<<"0","2",":","1","5">>), 333),
              FlashListing("shopee", NameActivSpaced, "powder", 1580, 1580,
                           "https://shopee.sg/activ-go",
                           FALSE, "normal", None, 0)>>
      [] platform = "lazada" ->
            <<FlashListing("lazada", NameSachet20, "powder", 1190, 1400,
                           "https://www.lazada.sg/sachet-20",
                           TRUE, "discount", None, 150),
              FlashListing("lazada", NameActivTight, "powder", 1620, 1620,
                           "https://www.lazada.sg/activgo",
                           TRUE, "flash_sale", Some(<<"S","o","o","n">>), 0)>>
      [] platform = "shengsiong" ->
            <<BasicListing("shengsiong", NameUhtTight, "uht", 450, 450, "")>>
      [] platform = "giant" ->
            <<BasicListing("giant", NameUht, "uht", 480, 480,
                           "https://giant.sg/uht")>>

Shelf(platform) == {Catalog(platform)[i] : i \in 1..Len(Catalog(platform))}

-----------------------------------------------------------------------------
(* The cache and its two accessors.  cache['by_platform'] is a function on
   the platforms stored so far: the order of its keys is read by nothing but
   the "platforms" field of some responses, and is not kept. *)

\* the cache as the module creates it
EmptyCache == [products |-> <<>>, last_updated |-> None, by_platform |-> <<>>]

CACHE_DURATION == 3600

\* timedelta.seconds is the seconds field of a timedelta, 0..86399: the
\* days are a separate field
SECONDS_PER_DAY == 86400

TimedeltaSeconds(delta) == delta % SECONDS_PER_DAY

\* get_cached_data(): Some(cache['products']) or None
get_cached_data(c, t) ==
    IF c.last_updated # None
    THEN LET elapsed == TimedeltaSeconds(t - c.last_updated[1])
         IN  IF elapsed < CACHE_DURATION THEN Some(c.products) ELSE None
    ELSE None

\* update_cache(products), its two assignments
update_cache_products(c, products) == [c EXCEPT !.products = products]

update_cache_stamp(c, t) == [c EXCEPT !.last_updated = Some(t)]

\* cache['by_platform'][platform] = products
by_platform_store(c, platform, products) ==
    [c EXCEPT !.by_platform =
        [q \in DOMAIN c.by_platform \cup {platform} |->
            IF q = platform THEN products ELSE c.by_platform[q]]]

\* Python truthiness of an optional list
Truthy(x) == x # None /\ x[1] # <<>>

\* what GET /api/status answers
get_status(c, t) ==
    [cache_status      |-> IF c.last_updated # None THEN "active" ELSE "empty",
     last_updated      |-> c.last_updated,
     cached_products   |-> Len(c.products),
     cache_age_seconds |-> IF c.last_updated # None
                           THEN Some(TimedeltaSeconds(t - c.last_updated[1]))
                           ELSE None,
     platforms         |-> [q \in DOMAIN c.by_platform |-> Len(c.by_platform[q])]]

-----------------------------------------------------------------------------
(* Threads.  The BackgroundScheduler runs scrape_job on a thread of its own;
   the Flask server answers requests on another.  One request thread is
   modelled: requests are then served one at a time, and any overlap shown
   is between the scheduler's job and a request.  A handler that only reads
   the cache and answers is one step that changes nothing. *)

Threads == {"scheduler", "request"}

\* Scrape cycles started in one behaviour
MaxCycles == 2

\* The clock advances by CACHE_DURATION a step, until it passes MaxClock
MaxClock == 3600

\* what scraper.scrape() may return for a platform: the products of its page
ScrapeReturns(platform) == {Catalog(platform)}

\* the list a cycle can hold for a platform: what scrape() returned, or []
CycleLists(platform) == ScrapeReturns(platform) \cup {<<>>}

\* the dicts all_products_by_platform a cycle can have built after its loop
CycleDicts ==
    {[i \in 1..Len(Platforms) |->
        [key |-> Platforms[i], value |-> <<l1, l2, l3, l4, l5>>[i]]] :
        l1 \in CycleLists(Platforms[1]), l2 \in CycleLists(Platforms[2]),
        l3 \in CycleLists(Platforms[3]), l4 \in CycleLists(Platforms[4]),
        l5 \in CycleLists(Platforms[5])}

\* consolidate_products on each of them, tabulated
Consolidated == [d \in CycleDicts |-> consolidate_products(d)] @@ <<>>

\* every list some scraper may return
ScrapedLists == UNION {ScrapeReturns(platform) : platform \in PlatformSet}

RequestPlatforms == PlatformSet \cup {"amazon"}

CyclePcs == {"scrape", "update_stamp", "cycle_done"}

InCycle(t) == pc[t] \in CyclePcs

InitBackend ==
    /\ cache = [products |-> <<>>, last_updated |-> None, by_platform |-> <<>>]
    /\ now = 0
    /\ pc = [t \in Threads |-> "idle"]
    /\ handler = [t \in Threads |-> "none"]
    /\ all_products_by_platform = [t \in Threads |-> <<>>]
    /\ cycle_result = [t \in Threads |-> None]
    /\ cycles = 0
    /\ outcome = [t \in Threads |-> <<>>]
    /\ last_completed = None

\* entry into scrape_all_platforms() on thread t, called from entry point h
StartCycle(t, h) ==
    /\ cycles < MaxCycles
    /\ pc' = [pc EXCEPT ![t] = "scrape"]
    /\ handler' = [handler EXCEPT ![t] = h]
    /\ all_products_by_platform' = [all_products_by_platform EXCEPT ![t] = <<>>]
    /\ cycle_result' = [cycle_result EXCEPT ![t] = None]
    /\ outcome' = [outcome EXCEPT ![t] = <<>>]
    /\ cycles' = cycles + 1
    /\ UNCHANGED <<cache, now, last_completed, nonBackendVars>>

\* the interval job of init_scheduler fires
SchedulerFire ==
    /\ pc["scheduler"] = "idle"
    /\ StartCycle("scheduler", "scrape_job")

\* POST /api/scrape
TriggerScrape ==
    /\ pc["request"] = "idle"
    /\ StartCycle("request", "trigger_scrape")

\* GET /api/products: answered from the cache when get_cached_data() is truthy
GetProductsCached ==
    /\ pc["request"] = "idle"
    /\ Truthy(get_cached_data(cache, now))
    /\ UNCHANGED vars

\* GET /api/products: a fresh scrape otherwise
GetProductsScrape ==
    /\ pc["request"] = "idle"
    /\ ~Truthy(get_cached_data(cache, now))
    /\ StartCycle("request", "get_products")

\* GET /api/status
GetStatus ==
    /\ pc["request"] = "idle"
    /\ get_status(cache, now).cached_products = Len(cache.products)
    /\ UNCHANGED vars

\* GET /api/products/<platform>: 400 for a platform that is not one of the five
GetPlatformProductsInvalid(platform) ==
    /\ pc["request"] = "idle"
    /\ platform \notin PlatformSet
    /\ UNCHANGED vars

\* GET /api/products/<platform>: the cached list when there is one
GetPlatformProductsCached(platform) ==
    /\ pc["request"] = "idle"
    /\ platform \in PlatformSet
    /\ platform \in DOMAIN cache.by_platform
    /\ UNCHANGED vars

\* GET /api/products/<platform>: otherwise scrape that platform
GetPlatformProductsScrape(platform) ==
    /\ pc["request"] = "idle"
    /\ platform \in PlatformSet
    /\ platform \notin DOMAIN cache.by_platform
    /\ pc' = [pc EXCEPT !["request"] = "scrape_one"]
    /\ handler' = [handler EXCEPT !["request"] = "get_platform_products"]
    /\ UNCHANGED <<cache, now, all_products_by_platform, cycle_result, cycles,
                   outcome, last_completed, nonBackendVars>>

\* ... scraper.scrape() returns, or raises: 200 with the products, or 500
PlatformScrapeEnds ==
    /\ pc["request"] = "scrape_one"
    /\ pc' = [pc EXCEPT !["request"] = "idle"]
    /\ handler' = [handler EXCEPT !["request"] = "none"]
    /\ UNCHANGED <<cache, now, all_products_by_platform, cycle_result, cycles,
                   outcome, last_completed, nonBackendVars>>

\* the platform the for loop of scrape_all_platforms is at
LoopPlatform(t) == Platforms[Len(all_products_by_platform[t]) + 1]

\* loop body, try branch: scraper.scrape() returned
ScrapeReturn(t, products) ==
    /\ pc[t] = "scrape"
    /\ Len(all_products_by_platform[t]) < Len(Platforms)
    /\ products \in ScrapeReturns(LoopPlatform(t))
    /\ all_products_by_platform' =
          [all_products_by_platform EXCEPT
              ![t] = Append(@, [key |-> LoopPlatform(t), value |-> products])]
    /\ cache' = by_platform_store(cache, LoopPlatform(t), products)
    /\ outcome' = [outcome EXCEPT
                      ![t] = Append(@, [platform |-> LoopPlatform(t),
                                        returned |-> Some(products)])]
    /\ UNCHANGED <<now, pc, handler, cycle_result, cycles, last_completed, nonBackendVars>>

\* mutant: no except clause, the exception leaves scrape_all_platforms
ScrapeRaiseEscapes(t) ==
    /\ pc[t] = "scrape"
    /\ Len(all_products_by_platform[t]) < Len(Platforms)
    /\ pc' = [pc EXCEPT ![t] = "raised"]
    /\ outcome' = [outcome EXCEPT
                      ![t] = Append(@, [platform |-> LoopPlatform(t),
                                        returned |-> None])]
    /\ UNCHANGED <<cache, now, handler, all_products_by_platform,
                   cycle_result, cycles, last_completed, nonBackendVars>>

\* mutant: the except clause falls back on the list cached for the platform
ScrapeRaiseUsesCached(t) ==
    /\ pc[t] = "scrape"
    /\ Len(all_products_by_platform[t]) < Len(Platforms)
    /\ all_products_by_platform' =
          [all_products_by_platform EXCEPT
              ![t] = Append(@, [key   |-> LoopPlatform(t),
                                value |-> IF LoopPlatform(t) \in DOMAIN cache.by_platform
                                          THEN cache.by_platform[LoopPlatform(t)]
                                          ELSE <<>>])]
    /\ outcome' = [outcome EXCEPT
                      ![t] = Append(@, [platform |-> LoopPlatform(t),
                                        returned |-> None])]
    /\ UNCHANGED <<cache, now, pc, handler, cycle_result, cycles,
                   last_completed, nonBackendVars>>

\* loop body, except branch: scraper.scrape() raised
ScrapeRaise(t) ==
    /\ pc[t] = "scrape"
    /\ Len(all_products_by_platform[t]) < Len(Platforms)
    /\ all_products_by_platform' =
          [all_products_by_platform EXCEPT
              ![t] = Append(@, [key |-> LoopPlatform(t), value |-> <<>>])]
    /\ outcome' = [outcome EXCEPT
                      ![t] = Append(@, [platform |-> LoopPlatform(t),
                                        returned |-> None])]
    /\ UNCHANGED <<cache, now, pc, handler, cycle_result, cycles,
                   last_completed, nonBackendVars>>

\* after the loop: consolidate, then update_cache's first assignment
UpdateCacheProducts(t) ==
    /\ pc[t] = "scrape"
    /\ Len(all_products_by_platform[t]) = Len(Platforms)
    /\ cycle_result' =
          [cycle_result EXCEPT ![t] = Some(Consolidated[all_products_by_platform[t]])]
    /\ cache' = update_cache_products(cache, Consolidated[all_products_by_platform[t]])
    /\ pc' = [pc EXCEPT ![t] = "update_stamp"]
    /\ UNCHANGED <<now, handler, all_products_by_platform, cycles,
                   outcome, last_completed, nonBackendVars>>

\* update_cache's second assignment; the cycle has published
UpdateCacheStamp(t) ==
    /\ pc[t] = "update_stamp"
    /\ cache' = update_cache_stamp(cache, now)
    /\ pc' = [pc EXCEPT ![t] = "cycle_done"]
    /\ last_completed' =
          Some([products     |-> cycle_result[t][1],
                last_updated |-> Some(now),
                by_platform  |-> all_products_by_platform[t]])
    /\ UNCHANGED <<now, handler, all_products_by_platform, cycle_result,
                   cycles, outcome, nonBackendVars>>

\* scrape_all_platforms returns "consolidated" to the entry point that called
\* it, which answers (or, for the scheduler's job, just ends)
FinishCycle(t) ==
    /\ pc[t] = "cycle_done"
    /\ pc' = [pc EXCEPT ![t] = "idle"]
    /\ handler' = [handler EXCEPT ![t] = "none"]
    /\ all_products_by_platform' = [all_products_by_platform EXCEPT ![t] = <<>>]
    /\ cycle_result' = [cycle_result EXCEPT ![t] = None]
    /\ outcome' = [outcome EXCEPT ![t] = <<>>]
    /\ UNCHANGED <<cache, now, cycles, last_completed, nonBackendVars>>

\* time passes
Tick ==
    /\ now < MaxClock
    /\ now' = now + CACHE_DURATION
    /\ UNCHANGED <<cache, pc, handler, all_products_by_platform,
                   cycle_result, cycles, outcome, last_completed, nonBackendVars>>

\* the steps of a scrape cycle on thread t
CycleStep(t) ==
    \/ \E products \in ScrapedLists : ScrapeReturn(t, products)
    \/ ScrapeRaise(t)
    \/ UpdateCacheProducts(t)
    \/ UpdateCacheStamp(t)
    \/ FinishCycle(t)

NextBackend ==
    \/ SchedulerFire
    \/ TriggerScrape
    \/ GetProductsCached
    \/ GetProductsScrape
    \/ GetStatus
    \/ \E platform \in RequestPlatforms :
          \/ GetPlatformProductsInvalid(platform)
          \/ GetPlatformProductsCached(platform)
          \/ GetPlatformProductsScrape(platform)
    \/ PlatformScrapeEnds
    \/ \E t \in Threads : CycleStep(t)
    \/ Tick

\* no cycle is running
NoCycle == \A t \in Threads : ~InCycle(t)

\* the same steps, a cycle starting only when no cycle is running
NextSerial ==
    \/ SchedulerFire /\ NoCycle
    \/ TriggerScrape /\ NoCycle
    \/ GetProductsCached
    \/ GetProductsScrape /\ NoCycle
    \/ GetStatus
    \/ \E platform \in RequestPlatforms :
          \/ GetPlatformProductsInvalid(platform)
          \/ GetPlatformProductsCached(platform)
          \/ GetPlatformProductsScrape(platform)
    \/ PlatformScrapeEnds
    \/ \E t \in Threads : CycleStep(t)
    \/ Tick

\* Longest list one platform contributes
MaxListLen == 2

ShelfLists(platform) == SeqsUpTo(Shelf(platform), MaxListLen)

\* all_products_by_platform as scrape_all_platforms builds it: the five keys
\* in scrapers order
ConsInputs ==
    {[i \in 1..Len(Platforms) |->
        [key |-> Platforms[i], value |-> <<l1, l2, l3, l4, l5>>[i]]] :
        l1 \in ShelfLists(Platforms[1]), l2 \in ShelfLists(Platforms[2]),
        l3 \in ShelfLists(Platforms[3]), l4 \in ShelfLists(Platforms[4]),
        l5 \in ShelfLists(Platforms[5])}

InitCons ==
    /\ products_by_platform \in ConsInputs
    /\ consolidated = None
    /\ consolidated_before = None
    /\ calls = 0

\* consolidated = consolidate_products(all_products_by_platform)
Consolidate ==
    /\ consolidated = None
    /\ consolidated' = Some(consolidate_products(products_by_platform))
    /\ calls' = calls + 1
    /\ UNCHANGED <<products_by_platform, consolidated_before, nonConsVars>>

\* the same dict is consolidated once more; the earlier result is kept aside
ConsolidateAgain ==
    /\ consolidated # None
    /\ consolidated_before = None
    /\ consolidated_before' = consolidated
    /\ consolidated' = Some(consolidate_products(products_by_platform))
    /\ calls' = calls + 1
    /\ UNCHANGED <<products_by_platform, nonConsVars>>

\* the next call is given the same lists in a dict built in the opposite order
CallReversed ==
    /\ consolidated # None
    /\ products_by_platform[1].key = Platforms[1]
    /\ products_by_platform' = Reverse(products_by_platform)
    /\ consolidated' = None
    /\ consolidated_before' = None
    /\ UNCHANGED <<calls, nonConsVars>>

NextCons == Consolidate \/ ConsolidateAgain \/ CallReversed

\* the consolidation variables when the backend specification runs
IdleCons ==
    /\ products_by_platform = <<>>
    /\ consolidated = None
    /\ consolidated_before = None
    /\ calls = 0

-----------------------------------------------------------------------------
(* get_cached_data and update_cache over long spans of time *)

\* Whole days the clock may run past the first
MaxDays == 1

\* the instants the clock is read at: around the ends of the cache duration
\* and of the day, in each day
ClockInstants ==
    {day * SECONDS_PER_DAY + offset :
        day \in 0..MaxDays,
        offset \in {0, 1, CACHE_DURATION - 1, CACHE_DURATION,
                    CACHE_DURATION + 1, SECONDS_PER_DAY - 1}}

\* lists of entries a cycle may hand to update_cache
FreshProducts ==
    {<<>>, consolidate_products(<<[key |-> "giant", value |-> Catalog("giant")]>>)}

\* no call of get_cached_data made yet
IdleFresh == cached_data = None

\* update_cache(products), both assignments
UpdateCache(products) ==
    /\ cache' = update_cache_stamp(update_cache_products(cache, products), now)
    /\ cached_data' = None
    /\ UNCHANGED <<now, nonFreshVars>>

\* cached_data = get_cached_data()
GetCachedData ==
    /\ cached_data' = Some(get_cached_data(cache, now))
    /\ UNCHANGED <<cache, now, nonFreshVars>>

\* time passes; what an earlier call returned is no longer held
Advance(instant) ==
    /\ instant > now
    /\ now' = instant
    /\ cached_data' = None
    /\ UNCHANGED <<cache, nonFreshVars>>

NextFresh ==
    \/ \E products \in FreshProducts : UpdateCache(products)
    \/ GetCachedData
    \/ \E instant \in ClockInstants : Advance(instant)

-----------------------------------------------------------------------------
(* Text functions of the scrapers (multi_platform_scraper.py) *)

\* sub in s
Contains(s, sub) ==
    \E i \in 1..(Len(s) - Len(sub) + 1) : SubSeq(s, i, i + Len(sub) - 1) = sub

\* s.startswith(p)
StartsWith(s, p) == Len(s) >= Len(p) /\ SubSeq(s, 1, Len(p)) = p

\* s.strip(); the only white space in the texts of the model is the space
Strip(s) ==
    LET inked == {i \in 1..Len(s) : s[i] # " "}
    IN  IF inked = {} THEN <<>>
        ELSE SubSeq(s, CHOOSE i \in inked : \A j \in inked : i <= j,
                       CHOOSE i \in inked : \A j \in inked : i >= j)

Digits == <<"0","1","2","3","4","5","6","7","8","9">>

IsDigit(c) == \E d \in 1..Len(Digits) : Digits[d] = c

DigitValue(c) == (CHOOSE d \in 1..Len(Digits) : Digits[d] = c) - 1

\* int(digits), 0 for no digits
RECURSIVE DigitsValue(_)
DigitsValue(digits) ==
    IF digits = <<>> THEN 0
    ELSE DigitsValue(SubSeq(digits, 1, Len(digits) - 1)) * 10
            + DigitValue(digits[Len(digits)])

\* length of the longest run of digits of s that starts at position i
DigitRun(s, i) ==
    CHOOSE n \in 0..(Len(s) - i + 1) :
        /\ \A k \in 0..(n - 1) : IsDigit(s[i + k])
        /\ i + n > Len(s) \/ ~IsDigit(s[i + n])

\* the cents of a fraction part; the texts of the model carry at most two
\* decimals
CentsOf(fraction) ==
    CASE Len(fraction) = 0 -> 0
      [] Len(fraction) = 1 -> DigitValue(fraction[1]) * 10
      [] OTHER -> DigitValue(fraction[1]) * 10 + DigitValue(fraction[2])

\* mutant: the thousands separators are left in the text
_extract_price_keeping_commas(text) ==
    IF text = <<>> THEN 0
    ELSE LET price_text == RemoveChar(RemoveChar(text, "$"), "S")
             starts     == {i \in 1..Len(price_text) : IsDigit(price_text[i])}
         IN  IF starts = {} THEN 0
             ELSE LET i   == CHOOSE a \in starts : \A b \in starts : a <= b
                      n   == DigitRun(price_text, i)
                      dot == i + n <= Len(price_text) /\ price_text[i + n] = "."
                      m   == IF dot THEN DigitRun(price_text, i + n + 1) ELSE 0
                  IN  DigitsValue(SubSeq(price_text, i, i + n - 1)) * 100
                        + CentsOf(SubSeq(price_text, i + n + 1, i + n + m))

\* BaseScraper._extract_price(text), in cents: the first match of
\* (\d+\.?\d*) after ',', '$' and 'S' are removed, 0 when there is none
_extract_price(text) ==
    IF text = <<>> THEN 0
    ELSE LET price_text == RemoveChar(RemoveChar(RemoveChar(text, ","), "$"), "S")
             starts     == {i \in 1..Len(price_text) : IsDigit(price_text[i])}
         IN  IF starts = {} THEN 0
             ELSE LET i   == CHOOSE a \in starts : \A b \in starts : a <= b
                      n   == DigitRun(price_text, i)
                      dot == i + n <= Len(price_text) /\ price_text[i + n] = "."
                      m   == IF dot THEN DigitRun(price_text, i + n + 1) ELSE 0
                  IN  DigitsValue(SubSeq(price_text, i, i + n - 1)) * 100
                        + CentsOf(SubSeq(price_text, i + n + 1, i + n + m))

\* str(n) of a natural number
RECURSIVE IntStr(_)
IntStr(n) ==
    IF n < 10 THEN <<Digits[n + 1]>>
    ELSE IntStr(n \div 10) \o <<Digits[(n % 10) + 1]>>

\* str(price) of a float price given in cents: '8.0', '12.9', '12.95'
FloatStr(cents) ==
    IntStr(cents \div 100) \o <<".">> \o
        (IF cents % 10 = 0 THEN IntStr((cents % 100) \div 10)
         ELSE <<Digits[((cents % 100) \div 10) + 1], Digits[(cents % 10) + 1]>>)

\* the word lists of _categorize_milo_product
UhtWords == <<<<"u","h","t">>, <<"p","a","c","k","e","t">>, <<"2","0","0","m","l">>, <<"t","e","t","r","a">>>>

PowderWords == <<<<"p","o","w","d","e","r">>, <<"t","i","n">>, <<"r","e","f","i","l","l">>, <<"k","g">>, <<"s","a","c","h","e","t">>, <<"g","a","o">>>>

BottleWords == <<<<"b","o","t","t","l","e">>, <<"1","l">>, <<"1",".","5","l">>, <<"p","e","t">>, <<"d","r","i","n","k">>>>

\* any(word in text for word in words)
AnyWordIn(words, text) == \E w \in 1..Len(words) : Contains(text, words[w])

\* mutant: the powder words are tested before the uht words
_categorize_powder_first(name) ==
    LET name_lower == Lower(name)
    IN  IF AnyWordIn(PowderWords, name_lower) THEN "powder"
        ELSE IF AnyWordIn(UhtWords, name_lower) THEN "uht"
        ELSE IF AnyWordIn(BottleWords, name_lower) THEN "bottle"
        ELSE "other"

\* BaseScraper._categorize_milo_product(name)
_categorize_milo_product(name) ==
    LET name_lower == Lower(name)
    IN  IF AnyWordIn(UhtWords, name_lower) THEN "uht"
        ELSE IF AnyWordIn(PowderWords, name_lower) THEN "powder"
        ELSE IF AnyWordIn(BottleWords, name_lower) THEN "bottle"
        ELSE "other"

-----------------------------------------------------------------------------
(* The parsed page.  A container is the sequence of the elements below it,
   in document order; an element has a tag, its class attribute, its
   data-sqe attribute, its href (None when absent) and its own text.
   Nesting below a container is not kept. *)

Element(tag, class, sqe, href, text) ==
    [tag |-> tag, class |-> class, sqe |-> sqe, href |-> href, text |-> text]

\* selector .token: the class attribute has the token among its words
ClassHas(e, token) ==
    Contains(<<" ">> \o e.class \o <<" ">>, <<" ">> \o token \o <<" ">>)

\* selector [class*="sub"]
ClassContains(e, sub) == Contains(e.class, sub)

\* container.select(selector) is SelectSeq(container, test), the selector
\* given as a test on elements; select_one is the first of them: None or
\* Some(element)
SelectOne(selected) == IF selected = <<>> THEN None ELSE Some(selected[1])

\* a or b or c on results of select_one (an element is truthy)
FirstOf(options) ==
    IF \E i \in 1..Len(options) : options[i] # None
    THEN options[CHOOSE i \in 1..Len(options) :
                    /\ options[i] # None
                    /\ \A j \in 1..(i - 1) : options[j] = None]
    ELSE None

\* a or b or c on results of select (an empty list is falsy)
FirstNonEmpty(lists) ==
    IF \E i \in 1..Len(lists) : lists[i] # <<>>
    THEN lists[CHOOSE i \in 1..Len(lists) :
                  /\ lists[i] # <<>>
                  /\ \A j \in 1..(i - 1) : lists[j] = <<>>]
    ELSE <<>>

\* container.get_text()
GetText(container) == Concat([i \in 1..Len(container) |-> container[i].text])

\* container.find(text=re.compile(r'milo', re.IGNORECASE)): None or Some(the
\* first text that matches)
FindMiloText(container) ==
    LET found == SelectSeq(container, LAMBDA e : Contains(Lower(e.text), <<"m","i","l","o">>))
    IN  IF found = <<>> THEN None ELSE Some(found[1].text)

-----------------------------------------------------------------------------
(* ShopeeScraper *)

SHOPEE_BASE_URL == <<"h","t","t","p","s",":","/","/","s","h","o","p","e","e",".","s","g">>

ShopeeFlashIndicators ==
    <<<<"f","l","a","s","h"," ","s","a","l","e">>, <<"f","l","a","s","h"," ","d","e","a","l">>, <<"l","i","g","h","t","n","i","n","g"," ","d","e","a","l">>, <<"l","i","m","i","t","e","d"," ","t","i","m","e">>,
      <<"h","o","u","r","l","y"," ","s","a","l","e">>, <<"s","h","o","p","e","e"," ","l","i","v","e"," ","s","a","l","e">>, <<"l","i","m","i","t","e","d"," ","o","f","f","e","r">>>>

\* the discount in percent, at or above which a price cut alone is a sale
SHOPEE_DISCOUNT_THRESHOLD == 20

\* (original_price - current_price) / original_price * 100 >= threshold as
\* a statement on exact numbers
DiscountAtLeastExact(original_price, current_price, threshold) ==
    (original_price - current_price) * 100 >= threshold * original_price

\* The discount is computed on doubles.  Away from the threshold the double
\* is on the same side of it as the exact quotient (prices are cents, so the
\* exact discount differs from a whole threshold by more than any rounding
\* error); at a cut of exactly the threshold the division and the
\* multiplication round, and the result may fall just below it.  These are
\* the pairs <<original_price, current_price>> among the prices of the
\* model where it does:
\*   ((8.0 - 6.4) / 8.0) * 100  = 19.999999999999996
\*   ((9.0 - 7.65) / 9.0) * 100 = 14.999999999999996
\* while ((10.0 - 8.0) / 10.0) * 100 = 20.0 and
\* ((10.0 - 8.5) / 10.0) * 100 = 15.0
RoundedBelow == {<<800, 640>>, <<900, 765>>}

\* ((original_price - current_price) / original_price) * 100 >= threshold,
\* prices in cents
DiscountAtLeast(original_price, current_price, threshold) ==
    IF (original_price - current_price) * 100 = threshold * original_price
    THEN <<original_price, current_price>> \notin RoundedBelow
    ELSE (original_price - current_price) * 100 > threshold * original_price

\* flash_info as the detectors create it
NoFlashInfo == [is_flash_sale |-> FALSE, sale_type |-> "normal", ends_at |-> None]

\* timer_elem of both detectors: None or Some(element)
TimerElem(container) ==
    FirstOf(<<SelectOne(SelectSeq(container, LAMBDA e : ClassContains(e, <<"c","o","u","n","t","d","o","w","n">>))),
              SelectOne(SelectSeq(container, LAMBDA e : ClassContains(e, <<"t","i","m","e","r">>))),
              SelectOne(SelectSeq(container, LAMBDA e : ClassContains(e, <<"t","i","m","e","-","l","e","f","t">>)))>>)

\* mutant: the countdown check assigns the kind whatever it was
CheckTimerOverwrites(container, flash_info) ==
    IF TimerElem(container) # None
    THEN [flash_info EXCEPT
            !.is_flash_sale = TRUE,
            !.sale_type = "flash_sale",
            !.ends_at = IF Strip(TimerElem(container)[1].text) # <<>>
                        THEN Some(Strip(TimerElem(container)[1].text))
                        ELSE Some(<<"S","o","o","n">>)]
    ELSE flash_info

\* the countdown check, the same statements in both detectors
CheckTimer(container, flash_info) ==
    IF TimerElem(container) # None
    THEN [flash_info EXCEPT
            !.is_flash_sale = TRUE,
            !.sale_type = IF @ = "normal" THEN "flash_sale" ELSE @,
            !.ends_at = IF Strip(TimerElem(container)[1].text) # <<>>
                        THEN Some(Strip(TimerElem(container)[1].text))
                        ELSE Some(<<"S","o","o","n">>)]
    ELSE flash_info

\* the significant-discount check, the same statements in both detectors
\* but for the threshold
CheckDiscount(flash_info, current_price, original_price, threshold) ==
    IF /\ ~flash_info.is_flash_sale
       /\ original_price > current_price
       /\ current_price > 0
       /\ DiscountAtLeast(original_price, current_price, threshold)
    THEN [flash_info EXCEPT !.is_flash_sale = TRUE, !.sale_type = "discount"]
    ELSE flash_info

\* the checks of _detect_shopee_flash_sale in the order of the code
SHOPEE_CHECKS == 5

\* check: flash sale text indicators
ShopeeCheckText(container, flash_info) ==
    IF AnyWordIn(ShopeeFlashIndicators, Lower(GetText(container)))
    THEN [flash_info EXCEPT !.is_flash_sale = TRUE, !.sale_type = "flash_sale"]
    ELSE flash_info

\* check: flash sale badges
ShopeeCheckFlashBadges(container, flash_info) ==
    LET flash_badges ==
            FirstNonEmpty(<<SelectSeq(container, LAMBDA e : ClassContains(e, <<"f","l","a","s","h">>)),
                            SelectSeq(container, LAMBDA e : ClassContains(e, <<"F","l","a","s","h">>))>>)
    IN  IF flash_badges # <<>>
        THEN [flash_info EXCEPT !.is_flash_sale = TRUE, !.sale_type = "flash_sale"]
        ELSE flash_info

\* check: Shopee sale badges
ShopeeCheckSaleBadges(container, flash_info) ==
    LET shopee_badges ==
            FirstNonEmpty(<<SelectSeq(container, LAMBDA e : ClassContains(e, <<"s","h","o","p","e","e","-","s","a","l","e">>)),
                            SelectSeq(container, LAMBDA e : ClassContains(e, <<"p","r","o","m","o","t","i","o","n">>))>>)
    IN  IF shopee_badges # <<>> /\ ~flash_info.is_flash_sale
        THEN [flash_info EXCEPT !.is_flash_sale = TRUE, !.sale_type = "shopee_sale"]
        ELSE flash_info

\* flash_info after the k-th check of _detect_shopee_flash_sale
ShopeeCheck(k, container, flash_info, current_price, original_price) ==
    CASE k = 1 -> ShopeeCheckText(container, flash_info)
      [] k = 2 -> ShopeeCheckFlashBadges(container, flash_info)
      [] k = 3 -> ShopeeCheckSaleBadges(container, flash_info)
      [] k = 4 -> CheckTimer(container, flash_info)
      [] k = 5 -> CheckDiscount(flash_info, current_price, original_price,
                                SHOPEE_DISCOUNT_THRESHOLD)

\* ShopeeScraper._detect_shopee_flash_sale(container, current_price,
\* original_price): the five checks in turn
_detect_shopee_flash_sale(container, current_price, original_price) ==
    LET after[k \in 0..SHOPEE_CHECKS] ==
            IF k = 0 THEN NoFlashInfo
            ELSE ShopeeCheck(k, container, after[k - 1], current_price,
                             original_price)
    IN  after[SHOPEE_CHECKS]

\* mutant: the price cut is taken as a share of the current price
DiscountTenthsOfPrice(original_price, price) ==
    ((original_price - price) * 2000 + price) \div (2 * price)

\* round(((original_price - price) / original_price) * 100, 1), in tenths of
\* a percent, on exact cents
DiscountTenths(original_price, price) ==
    ((original_price - price) * 2000 + original_price) \div (2 * original_price)

\* ShopeeScraper._extract_product_with_flash_sale(container): None or
\* Some(product)
shopee_extract_product_with_flash_sale(container) ==
    LET name_elem ==
            FirstOf(<<SelectOne(SelectSeq(container, LAMBDA e : e.tag = "div" /\ e.sqe = "name")),
                      SelectOne(SelectSeq(container, LAMBDA e :
                          e.tag = "div" /\ ClassHas(e, <<"s","h","o","p","e","e","-","i","t","e","m","-","c","a","r","d","_","_","t","e","x","t","-","n","a","m","e">>))),
                      SelectOne(SelectSeq(container, LAMBDA e : ClassContains(e, <<"i","t","e","m","-","n","a","m","e">>)))>>)
        name_text == FindMiloText(container)
        name == IF name_elem # None THEN Strip(name_elem[1].text) ELSE name_text[1]
        price_elem ==
            FirstOf(<<SelectOne(SelectSeq(container, LAMBDA e : e.tag = "span" /\ e.sqe = "price")),
                      SelectOne(SelectSeq(container, LAMBDA e :
                          e.tag = "span" /\ ClassHas(e, <<"s","h","o","p","e","e","-","i","t","e","m","-","c","a","r","d","_","_","c","u","r","r","e","n","t","-","p","r","i","c","e">>))),
                      SelectOne(SelectSeq(container, LAMBDA e : ClassContains(e, <<"c","u","r","r","e","n","t","-","p","r","i","c","e">>)))>>)
        price == _extract_price(IF price_elem # None THEN price_elem[1].text ELSE <<"0">>)
        original_price_elem ==
            FirstOf(<<SelectOne(SelectSeq(container, LAMBDA e :
                          e.tag = "span" /\ ClassContains(e, <<"o","r","i","g","i","n","a","l","-","p","r","i","c","e">>))),
                      SelectOne(SelectSeq(container, LAMBDA e : e.tag = "del")),
                      SelectOne(SelectSeq(container, LAMBDA e :
                          ClassContains(e, <<"p","r","i","c","e","-","b","e","f","o","r","e","-","d","i","s","c","o","u","n","t">>)))>>)
        original_price ==
            _extract_price(IF original_price_elem # None
                           THEN original_price_elem[1].text
                           ELSE FloatStr(price))
        flash_sale_info == _detect_shopee_flash_sale(container, price, original_price)
        link_elem ==
            FirstOf(<<SelectOne(SelectSeq(container, LAMBDA e : e.tag = "a" /\ e.sqe = "link")),
                      SelectOne(SelectSeq(container, LAMBDA e : e.tag = "a"))>>)
        product_url ==
            IF link_elem # None /\ link_elem[1].href # None /\ link_elem[1].href[1] # <<>>
            THEN IF StartsWith(link_elem[1].href[1], <<"h","t","t","p">>)
                 THEN link_elem[1].href[1]
                 ELSE SHOPEE_BASE_URL \o link_elem[1].href[1]
            ELSE <<>>
        discount_percent ==
            IF original_price > price /\ price > 0
            THEN DiscountTenths(original_price, price)
            ELSE 0
    IN  IF name_elem = None /\ name_text = None THEN None
        ELSE Some([name             |-> name,
                   type             |-> _categorize_milo_product(name),
                   price            |-> price,
                   original_price   |-> IF original_price > 0 THEN original_price
                                        ELSE price,
                   flash_sale       |-> flash_sale_info.is_flash_sale,
                   flash_sale_type  |-> flash_sale_info.sale_type,
                   flash_sale_end   |-> flash_sale_info.ends_at,
                   discount_percent |-> discount_percent,
                   url              |-> product_url,
                   platform         |-> "shopee"])

\* ShopeeScraper.scrape(headless, max_products): the pages it is run on

\* scrape's default for max_products, which every caller passes as well
MAX_PRODUCTS == 10

\* the values of max_products scrape is called with
MaxProductsValues == {1, MAX_PRODUCTS}

\* Longest page made of the sample containers
MaxPageLen == 2

\* what a container may hold for the product's name and link; the last two
\* are a container without a name and a name element without text
NameParts ==
    {<<Element("a", <<>>, "link", Some(<<"/","m","i","l","o","-","t","i","n","-","i",".","1">>), <<>>),
       Element("div", <<>>, "name", None, <<"M","i","l","o"," ","T","i","n">>)>>,
     <<Element("a", <<>>, "", Some(<<"h","t","t","p","s",":","/","/","s","h","o","p","e","e",".","s","g","/","u","h","t">>), <<>>),
       Element("div", <<"c","a","r","d"," ","x","-","i","t","e","m","-","n","a","m","e">>, "", None, <<" ","M","I","L","O"," ","U","H","T"," ">>)>>,
     <<Element("p", <<>>, "", None, <<"m","i","l","o"," ","1","L"," ">>)>>,
     <<Element("div", <<"t","i","t","l","e">>, "", None, <<"O","v","a","l","t","i","n","e">>)>>,
     <<Element("div", <<>>, "name", None, <<" ">>)>>}

\* ... for the current price
PriceParts ==
    {<<Element("span", <<>>, "price", None, <<"$","8",".","0","0">>)>>,
     <<Element("span", <<"s","h","o","p","e","e","-","i","t","e","m","-","c","a","r","d","_","_","c","u","r","r","e","n","t","-","p","r","i","c","e">>, "", None, <<"S","$","1",",","2","5","0",".","5","0">>)>>,
     <<>>}

\* ... for the price before discount
OriginalPriceParts ==
    {<<Element("del", <<>>, "", None, <<"$","1","0",".","0","0">>)>>,
     <<Element("del", <<>>, "", None, <<"$","5",".","0","0">>)>>,
     <<Element("span", <<"o","r","i","g","i","n","a","l","-","p","r","i","c","e">>, "", None, <<"$","9",".","0","0">>)>>,
     <<>>}

\* ... for sale signals: a keyword, badges, a countdown with and without text
SignalParts ==
    {<<>>,
     <<Element("div", <<"t","a","g">>, "", None, <<"F","l","a","s","h"," ","S","a","l","e">>)>>,
     <<Element("div", <<"f","l","a","s","h","-","b","a","d","g","e">>, "", None, <<>>)>>,
     <<Element("div", <<"p","r","o","m","o","t","i","o","n","-","t","a","g">>, "", None, <<>>)>>,
     <<Element("div", <<"c","o","u","n","t","d","o","w","n">>, "", None, <<" ","0","2",":","1","5",":","3","0"," ">>)>>,
     <<Element("div", <<"t","i","m","e","-","l","e","f","t">>, "", None, <<>>)>>}

ShopeeContainers ==
    {name \o price \o original \o signal :
        name \in NameParts, price \in PriceParts,
        original \in OriginalPriceParts, signal \in SignalParts}

\* three of them, for pages of more than one container: a plain product, a
\* product under a keyword, and a container without a product
SampleContainers ==
    {<<Element("a", <<>>, "link", Some(<<"/","m","i","l","o","-","t","i","n","-","i",".","1">>), <<>>),
       Element("div", <<>>, "name", None, <<"M","i","l","o"," ","T","i","n">>),
       Element("span", <<>>, "price", None, <<"$","8",".","0","0">>)>>,
     <<Element("p", <<>>, "", None, <<"m","i","l","o"," ","1","L"," ">>),
       Element("span", <<>>, "price", None, <<"$","8",".","0","0">>),
       Element("del", <<>>, "", None, <<"$","1","0",".","0","0">>),
       Element("div", <<"t","a","g">>, "", None, <<"F","l","a","s","h"," ","S","a","l","e">>)>>,
     <<Element("div", <<"t","i","t","l","e">>, "", None, <<"O","v","a","l","t","i","n","e">>),
       Element("span", <<>>, "price", None, <<"$","8",".","0","0">>)>>}

\* the containers the page's selectors return
ShopeePages ==
    {<<container>> : container \in ShopeeContainers}
        \cup SeqsUpTo(SampleContainers, MaxPageLen)

-----------------------------------------------------------------------------
(* LazadaScraper.  An element of a Lazada page has a tag, its class
   attribute, its data-qa-locator attribute, its title attribute (None when
   absent), its href (None when absent) and its own text. *)

LazadaElement(tag, class, qa, title, href, text) ==
    [tag |-> tag, class |-> class, qa |-> qa, title |-> title, href |-> href, text |-> text]

LAZADA_BASE_URL == <<"h","t","t","p","s",":","/","/","w","w","w",".","l","a","z","a","d","a",".","s","g">>

LazadaFlashIndicators ==
    <<<<"l","a","z","f","l","a","s","h">>, <<"f","l","a","s","h"," ","s","a","l","e">>, <<"f","l","a","s","h"," ","d","e","a","l">>, <<"l","i","g","h","t","n","i","n","g"," ","d","e","a","l">>,
      <<"l","i","m","i","t","e","d"," ","t","i","m","e">>, <<"l","i","m","i","t","e","d"," ","q","u","a","n","t","i","t","y">>, <<"e","n","d","i","n","g"," ","s","o","o","n">>, <<"l","a","z","a","d","a"," ","s","a","l","e">>>>

\* the words looked for in the text of a sale tag
LazadaTagWords == <<<<"f","l","a","s","h">>, <<"l","i","m","i","t","e","d">>, <<"e","n","d","i","n","g">>>>

\* the words looked for in the text of a stock indicator
LazadaStockWords == <<<<"l","e","f","t">>, <<"r","e","m","a","i","n","i","n","g">>, <<"l","i","m","i","t","e","d">>>>

\* the discount in percent, at or above which a price cut alone is a sale
LAZADA_DISCOUNT_THRESHOLD == 15

\* the first of the words that is in text, as the for loop with break finds
\* it: None or Some(word)
FirstWordIn(words, text) ==
    IF AnyWordIn(words, text)
    THEN Some(words[CHOOSE w \in 1..Len(words) :
                       /\ Contains(text, words[w])
                       /\ \A v \in 1..(w - 1) : ~Contains(text, words[v])])
    ELSE None

\* the checks of _detect_lazada_flash_sale in the order of the code
LAZADA_CHECKS == 6

\* check: flash sale text indicators
LazadaCheckText(container, flash_info) ==
    LET indicator == FirstWordIn(LazadaFlashIndicators, Lower(GetText(container)))
    IN  IF indicator # None
        THEN [flash_info EXCEPT
                !.is_flash_sale = TRUE,
                !.sale_type = IF \/ Contains(indicator[1], <<"l","a","z","f","l","a","s","h">>)
                                 \/ Contains(indicator[1], <<"f","l","a","s","h">>)
                              THEN "flash_sale" ELSE "lazada_sale"]
        ELSE flash_info

\* check: flash sale badges
LazadaCheckFlashBadges(container, flash_info) ==
    LET flash_badges ==
            FirstNonEmpty(<<SelectSeq(container, LAMBDA e : ClassContains(e, <<"f","l","a","s","h">>)),
                            SelectSeq(container, LAMBDA e : ClassContains(e, <<"F","l","a","s","h">>)),
                            SelectSeq(container, LAMBDA e : ClassContains(e, <<"L","a","z","F","l","a","s","h">>))>>)
    IN  IF flash_badges # <<>>
        THEN [flash_info EXCEPT !.is_flash_sale = TRUE, !.sale_type = "flash_sale"]
        ELSE flash_info

\* check: sale tags
LazadaCheckSaleTags(container, flash_info) ==
    LET sale_tags ==
            FirstNonEmpty(<<SelectSeq(container, LAMBDA e : ClassContains(e, <<"s","a","l","e","-","t","a","g">>)),
                            SelectSeq(container, LAMBDA e : ClassContains(e, <<"p","r","o","m","o","t","i","o","n">>)),
                            SelectSeq(container, LAMBDA e : ClassContains(e, <<"b","a","d","g","e">>))>>)
    IN  IF /\ sale_tags # <<>>
           /\ ~flash_info.is_flash_sale
           /\ \E i \in 1..Len(sale_tags) :
                 AnyWordIn(LazadaTagWords, Lower(sale_tags[i].text))
        THEN [flash_info EXCEPT !.is_flash_sale = TRUE, !.sale_type = "flash_sale"]
        ELSE flash_info

\* mutant: the stock wording sets the flag and leaves the kind as it was
LazadaCheckStockFlagOnly(container, flash_info) ==
    LET stock_indicators ==
            FirstNonEmpty(<<SelectSeq(container, LAMBDA e : ClassContains(e, <<"s","t","o","c","k">>)),
                            SelectSeq(container, LAMBDA e : ClassContains(e, <<"q","u","a","n","t","i","t","y">>))>>)
    IN  IF /\ ~flash_info.is_flash_sale
           /\ \E i \in 1..Len(stock_indicators) :
                 AnyWordIn(LazadaStockWords, Lower(stock_indicators[i].text))
        THEN [flash_info EXCEPT !.is_flash_sale = TRUE]
        ELSE flash_info

\* check: limited stock indicators
LazadaCheckStock(container, flash_info) ==
    LET stock_indicators ==
            FirstNonEmpty(<<SelectSeq(container, LAMBDA e : ClassContains(e, <<"s","t","o","c","k">>)),
                            SelectSeq(container, LAMBDA e : ClassContains(e, <<"q","u","a","n","t","i","t","y">>))>>)
    IN  IF /\ ~flash_info.is_flash_sale
           /\ \E i \in 1..Len(stock_indicators) :
                 AnyWordIn(LazadaStockWords, Lower(stock_indicators[i].text))
        THEN [flash_info EXCEPT !.is_flash_sale = TRUE, !.sale_type = "limited_stock"]
        ELSE flash_info

\* flash_info after the k-th check of _detect_lazada_flash_sale
LazadaCheck(k, container, flash_info, current_price, original_price) ==
    CASE k = 1 -> LazadaCheckText(container, flash_info)
      [] k = 2 -> LazadaCheckFlashBadges(container, flash_info)
      [] k = 3 -> LazadaCheckSaleTags(container, flash_info)
      [] k = 4 -> CheckTimer(container, flash_info)
      [] k = 5 -> LazadaCheckStock(container, flash_info)
      [] k = 6 -> CheckDiscount(flash_info, current_price, original_price,
                                LAZADA_DISCOUNT_THRESHOLD)

\* LazadaScraper._detect_lazada_flash_sale(container, current_price,
\* original_price): the six checks in turn
_detect_lazada_flash_sale(container, current_price, original_price) ==
    LET after[k \in 0..LAZADA_CHECKS] ==
            IF k = 0 THEN NoFlashInfo
            ELSE LazadaCheck(k, container, after[k - 1], current_price,
                             original_price)
    IN  after[LAZADA_CHECKS]

\* LazadaScraper._extract_product_with_flash_sale(container): None or
\* Some(product)
lazada_extract_product_with_flash_sale(container) ==
    LET name_elem ==
            FirstOf(<<SelectOne(SelectSeq(container, LAMBDA e : e.tag = "div" /\ e.qa = "product-name")),
                      SelectOne(SelectSeq(container, LAMBDA e : e.tag = "div" /\ ClassHas(e, <<"R","f","A","D","t">>))),
                      SelectOne(SelectSeq(container, LAMBDA e : e.title # None))>>)
        \* name_elem.get('title', name_elem.get_text(strip=True))
        name == IF name_elem[1].title # None THEN name_elem[1].title[1]
                ELSE Strip(name_elem[1].text)
        price_elem ==
            FirstOf(<<SelectOne(SelectSeq(container, LAMBDA e : e.tag = "span" /\ e.qa = "product-price")),
                      SelectOne(SelectSeq(container, LAMBDA e : e.tag = "span" /\ ClassHas(e, <<"o","o","O","x","S">>))),
                      SelectOne(SelectSeq(container, LAMBDA e : ClassContains(e, <<"p","r","i","c","e">>)))>>)
        price == _extract_price(IF price_elem # None THEN price_elem[1].text ELSE <<"0">>)
        original_price_elem ==
            FirstOf(<<SelectOne(SelectSeq(container, LAMBDA e : e.tag = "del" /\ ClassContains(e, <<"p","r","i","c","e">>))),
                      SelectOne(SelectSeq(container, LAMBDA e : ClassContains(e, <<"o","r","i","g","i","n","a","l">>))),
                      SelectOne(SelectSeq(container, LAMBDA e : e.tag = "del"))>>)
        original_price ==
            _extract_price(IF original_price_elem # None
                           THEN original_price_elem[1].text
                           ELSE FloatStr(price))
        flash_sale_info == _detect_lazada_flash_sale(container, price, original_price)
        link_elem == SelectOne(SelectSeq(container, LAMBDA e : e.tag = "a"))
        product_url ==
            IF link_elem # None /\ link_elem[1].href # None /\ link_elem[1].href[1] # <<>>
            THEN IF StartsWith(link_elem[1].href[1], <<"h","t","t","p">>)
                 THEN link_elem[1].href[1]
                 ELSE LAZADA_BASE_URL \o link_elem[1].href[1]
            ELSE <<>>
        discount_percent ==
            IF original_price > price /\ price > 0
            THEN DiscountTenths(original_price, price)
            ELSE 0
    IN  IF name_elem = None THEN None
        ELSE Some([name             |-> name,
                   type             |-> _categorize_milo_product(name),
                   price            |-> price,
                   original_price   |-> IF original_price > 0 THEN original_price
                                        ELSE price,
                   flash_sale       |-> flash_sale_info.is_flash_sale,
                   flash_sale_type  |-> flash_sale_info.sale_type,
                   flash_sale_end   |-> flash_sale_info.ends_at,
                   discount_percent |-> discount_percent,
                   url              |-> product_url,
                   platform         |-> "lazada"])

\* what a Lazada container may hold for the product's name and link: a name
\* element, a title attribute, a name element without text, an empty title,
\* no name at all
LazadaNameParts ==
    {<<LazadaElement("a", <<>>, "", None, Some(<<"/","p","r","o","d","u","c","t","s","/","m","i","l","o","-","s","a","c","h","e","t">>), <<>>),
       LazadaElement("div", <<>>, "product-name", None, None, <<"M","i","l","o"," ","S","a","c","h","e","t"," ","1","8","s">>)>>,
     <<LazadaElement("a", <<>>, "", Some(<<"M","I","L","O"," ","U","H","T"," ","2","0","0","m","l">>), Some(<<"h","t","t","p","s",":","/","/","w","w","w",".","l","a","z","a","d","a",".","s","g","/","u","h","t">>), <<" ","M","i","l","o"," ">>)>>,
     <<LazadaElement("div", <<"R","f","A","D","t">>, "", None, None, <<" ">>)>>,
     <<LazadaElement("a", <<>>, "", Some(<<>>), Some(<<"/","p","r","o","d","u","c","t","s","/","i","7","7">>), <<>>)>>,
     <<LazadaElement("div", <<"c","a","r","d">>, "", None, None, <<"M","i","l","o">>)>>}

\* ... for the current price: an amount, none, a text without a number
LazadaPriceParts ==
    {<<LazadaElement("span", <<>>, "product-price", None, None, <<"$","8",".","0","0">>)>>,
     <<LazadaElement("span", <<"o","o","O","x","S">>, "", None, None, <<"S","$","1","2",".","5","0">>)>>,
     <<>>,
     <<LazadaElement("span", <<"p","r","i","c","e">>, "", None, None, <<"S","o","l","d"," ","o","u","t">>)>>}

\* ... for the price before discount
LazadaOriginalPriceParts ==
    {<<LazadaElement("del", <<>>, "", None, None, <<"$","1","0",".","0","0">>)>>,
     <<LazadaElement("del", <<>>, "", None, None, <<"$","5",".","0","0">>)>>,
     <<LazadaElement("span", <<"o","r","i","g","i","n","a","l">>, "", None, None, <<"$","9",".","0","0">>)>>,
     <<>>}

\* ... for sale signals: keywords, a badge class, a sale tag, a countdown, a
\* stock indicator
LazadaSignalParts ==
    {<<>>,
     <<LazadaElement("div", <<"t","a","g">>, "", None, None, <<"L","a","z","F","l","a","s","h">>)>>,
     <<LazadaElement("div", <<"t","a","g">>, "", None, None, <<"L","a","z","a","d","a"," ","S","a","l","e">>)>>,
     <<LazadaElement("div", <<"F","l","a","s","h","-","i","c","o","n">>, "", None, None, <<>>)>>,
     <<LazadaElement("div", <<"b","a","d","g","e">>, "", None, None, <<"L","i","m","i","t","e","d">>)>>,
     <<LazadaElement("div", <<"c","o","u","n","t","d","o","w","n">>, "", None, None, <<>>)>>,
     <<LazadaElement("div", <<"s","t","o","c","k">>, "", None, None, <<"3"," ","l","e","f","t">>)>>}

LazadaContainers ==
    {name \o price \o original \o signal :
        name \in LazadaNameParts, price \in LazadaPriceParts,
        original \in LazadaOriginalPriceParts, signal \in LazadaSignalParts}

\* three of them, for pages of more than one container: a container without
\* a name, a product, and a product whose title is empty
LazadaSampleContainers ==
    {<<LazadaElement("div", <<"c","a","r","d">>, "", None, None, <<"M","i","l","o">>),
       LazadaElement("span", <<>>, "product-price", None, None, <<"$","8",".","0","0">>)>>,
     <<LazadaElement("div", <<>>, "product-name", None, None, <<"M","i","l","o"," ","S","a","c","h","e","t"," ","1","8","s">>),
       LazadaElement("span", <<>>, "product-price", None, None, <<"$","8",".","0","0">>),
       LazadaElement("del", <<>>, "", None, None, <<"$","1","0",".","0","0">>)>>,
     <<LazadaElement("a", <<>>, "", Some(<<>>), Some(<<"/","p","r","o","d","u","c","t","s","/","i","7","7">>), <<>>),
       LazadaElement("span", <<>>, "product-price", None, None, <<"$","8",".","0","0">>)>>}

\* the containers the page's selectors return
LazadaPages ==
    {<<container>> : container \in LazadaContainers}
        \cup SeqsUpTo(LazadaSampleContainers, MaxPageLen)

-----------------------------------------------------------------------------
(* FairPriceScraper.  An element of a FairPrice page has a tag, its class
   attribute, its data-testid attribute, its href (None when absent) and its
   own text. *)

FairPriceElement(tag, class, testid, href, text) ==
    [tag |-> tag, class |-> class, testid |-> testid, href |-> href, text |-> text]

FAIRPRICE_BASE_URL == <<"h","t","t","p","s",":","/","/","w","w","w",".","f","a","i","r","p","r","i","c","e",".","c","o","m",".","s","g">>

\* the body of the loop of FairPriceScraper.scrape on one container: None
\* when it ends in "continue", or Some(the product appended)
FairPriceProduct(container) ==
    LET name_elem ==
            FirstOf(<<SelectOne(SelectSeq(container, LAMBDA e : e.tag = "div" /\ e.testid = "product-name")),
                      SelectOne(SelectSeq(container, LAMBDA e : ClassContains(e, <<"p","r","o","d","u","c","t","-","n","a","m","e">>))),
                      SelectOne(SelectSeq(container, LAMBDA e : e.tag = "h3"))>>)
        name == Strip(name_elem[1].text)
        price_elem ==
            FirstOf(<<SelectOne(SelectSeq(container, LAMBDA e : e.tag = "span" /\ e.testid = "product-price")),
                      SelectOne(SelectSeq(container, LAMBDA e : ClassContains(e, <<"p","r","i","c","e">>)))>>)
        price == _extract_price(IF price_elem # None THEN price_elem[1].text ELSE <<"0">>)
        original_price_elem ==
            SelectOne(SelectSeq(container, LAMBDA e : ClassContains(e, <<"o","r","i","g","i","n","a","l">>)))
        original_price ==
            _extract_price(IF original_price_elem # None
                           THEN original_price_elem[1].text
                           ELSE FloatStr(price))
        link_elem == SelectOne(SelectSeq(container, LAMBDA e : e.tag = "a"))
        product_url ==
            IF link_elem # None /\ link_elem[1].href # None /\ link_elem[1].href[1] # <<>>
            THEN IF StartsWith(link_elem[1].href[1], <<"h","t","t","p">>)
                 THEN link_elem[1].href[1]
                 ELSE FAIRPRICE_BASE_URL \o link_elem[1].href[1]
            ELSE <<>>
    IN  IF name_elem = None THEN None
        ELSE Some([name           |-> name,
                   type           |-> _categorize_milo_product(name),
                   price          |-> price,
                   original_price |-> IF original_price > 0 THEN original_price
                                      ELSE price,
                   flash_sale     |-> original_price > price /\ price > 0,
                   url            |-> product_url,
                   platform       |-> "fairprice"])

\* what a FairPrice container may hold for the product's name and link: a
\* name element, a heading without text, no name at all
FairPriceNameParts ==
    {<<FairPriceElement("a", <<>>, "", Some(<<"/","p","r","o","d","u","c","t","/","m","i","l","o","-","p","o","w","d","e","r","-","1","k","g">>), <<>>),
       FairPriceElement("div", <<>>, "product-name", None, <<"M","i","l","o"," ","P","o","w","d","e","r"," ","1","k","g">>)>>,
     <<FairPriceElement("span", <<"s","k","-","p","r","o","d","u","c","t","-","n","a","m","e">>, "", None, <<" ","M","I","L","O"," ","G","a","o"," ","S","i","e","w"," ","D","a","i"," ">>)>>,
     <<FairPriceElement("h3", <<>>, "", None, <<" ">>)>>,
     <<FairPriceElement("span", <<"t","i","t","l","e">>, "", None, <<"M","i","l","o">>)>>}

\* ... for the current price: an amount, none, a text without a number
FairPricePriceParts ==
    {<<FairPriceElement("span", <<>>, "product-price", None, <<"$","1","2",".","9","0">>)>>,
     <<>>,
     <<FairPriceElement("span", <<"p","r","i","c","e">>, "", None, <<"N","/","A">>)>>}

\* ... for the price before discount
FairPriceOriginalPriceParts ==
    {<<FairPriceElement("span", <<"o","r","i","g","i","n","a","l">>, "", None, <<"$","1","5",".","0","0">>)>>,
     <<>>}

FairPriceContainers ==
    {name \o price \o original :
        name \in FairPriceNameParts, price \in FairPricePriceParts,
        original \in FairPriceOriginalPriceParts}

\* the containers the page's selectors return
FairPricePages == SeqsUpTo(FairPriceContainers, MaxPageLen)

-----------------------------------------------------------------------------
(* Runs of scrape(headless, max_products) *)

\* the scrapers whose scrape is run
Scrapers == {"shopee", "lazada", "fairprice"}

\* two FairPrice containers for pages under the later selectors: a product
\* and a container without a name
FairPriceSampleContainers ==
    {<<FairPriceElement("h3", <<>>, "", None, <<"M","i","l","o"," ","T","i","n">>),
       FairPriceElement("span", <<>>, "product-price", None, <<"$","8",".","0","0">>)>>,
     <<FairPriceElement("span", <<>>, "product-price", None, <<"$","8",".","0","0">>)>>}

\* the sample containers of each
ScraperSamples(platform) ==
    CASE platform = "shopee" -> SampleContainers
      [] platform = "lazada" -> LazadaSampleContainers
      [] platform = "fairprice" -> FairPriceSampleContainers

\* the pages each is run on
ScraperPages(platform) ==
    CASE platform = "shopee" -> ShopeePages
      [] platform = "lazada" -> LazadaPages
      [] platform = "fairprice" -> FairPricePages

\* the pages with their containers under the first selector, and pages on
\* which the first selector matches nothing, the second some of the sample
\* containers or none and the third some or none
ScraperSelections(platform) ==
    {<<page, <<>>, <<>>>> : page \in ScraperPages(platform)}
        \cup {<<<<>>, second, third>> :
                  second \in SeqsUpTo(ScraperSamples(platform), MaxPageLen),
                  third \in SeqsUpTo(ScraperSamples(platform), MaxPageLen)}

\* mutant: the third selector's list is taken whenever it matches
SelectContainersLast(lists, limit) ==
    FirstNonEmpty(<<Prefix(lists[3], limit), lists[1], lists[2]>>)

\* containers = soup.select(a) or soup.select(b) or soup.select(c)[:max_products]
SelectContainers(lists, limit) ==
    FirstNonEmpty(<<lists[1], lists[2], Prefix(lists[3], limit)>>)

InitScrape ==
    /\ scraper \in Scrapers
    /\ soup_selected \in ScraperSelections(scraper)
    /\ containers = <<>>
    /\ max_products \in MaxProductsValues
    /\ position = 0
    /\ scrape_products = <<>>
    /\ scrape_pc = "goto"

\* the scraper variables when another specification runs
IdleScrape ==
    /\ scraper = "none"
    /\ soup_selected = <<<<>>, <<>>, <<>>>>
    /\ containers = <<>>
    /\ max_products = MAX_PRODUCTS
    /\ position = 0
    /\ scrape_products = <<>>
    /\ scrape_pc = "idle"

\* page.goto (or page.content) raises: the outer except prints, the browser
\* is closed and scrape returns the empty products
ShopeeGotoFails ==
    /\ scraper = "shopee"
    /\ scrape_pc = "goto"
    /\ scrape_pc' = "returned"
    /\ UNCHANGED <<scraper, soup_selected, containers, max_products, position, scrape_products,
                   nonScrapeVars>>

\* the page is loaded and parsed, the containers are selected
ShopeeParse ==
    /\ scraper = "shopee"
    /\ scrape_pc = "goto"
    /\ scrape_pc' = "loop"
    /\ position' = 1
    /\ containers' = SelectContainers(soup_selected, max_products)
    /\ UNCHANGED <<scraper, soup_selected, max_products, scrape_products, nonScrapeVars>>

\* one iteration of "for container in containers[:max_products]"
ShopeeLoopBody ==
    /\ scraper = "shopee"
    /\ scrape_pc = "loop"
    /\ position <= Len(Prefix(containers, max_products))
    /\ LET product ==
              shopee_extract_product_with_flash_sale(
                  Prefix(containers, max_products)[position])
       IN  scrape_products' =
              IF product # None THEN Append(scrape_products, product[1])
              ELSE scrape_products
    /\ position' = position + 1
    /\ UNCHANGED <<scraper, soup_selected, containers, max_products, scrape_pc, nonScrapeVars>>

\* the loop is over: the browser is closed, scrape returns products
ShopeeReturn ==
    /\ scraper = "shopee"
    /\ scrape_pc = "loop"
    /\ position > Len(Prefix(containers, max_products))
    /\ scrape_pc' = "returned"
    /\ UNCHANGED <<scraper, soup_selected, containers, max_products, position, scrape_products,
                   nonScrapeVars>>

\* LazadaScraper.scrape: page.goto (or page.content) raises, the outer except
\* prints, the browser is closed and scrape returns the empty products
LazadaGotoFails ==
    /\ scraper = "lazada"
    /\ scrape_pc = "goto"
    /\ scrape_pc' = "returned"
    /\ UNCHANGED <<scraper, soup_selected, containers, max_products, position, scrape_products,
                   nonScrapeVars>>

\* the page is loaded and parsed, the containers are selected
LazadaParse ==
    /\ scraper = "lazada"
    /\ scrape_pc = "goto"
    /\ scrape_pc' = "loop"
    /\ position' = 1
    /\ containers' = SelectContainers(soup_selected, max_products)
    /\ UNCHANGED <<scraper, soup_selected, max_products, scrape_products, nonScrapeVars>>

\* one iteration of "for container in containers[:max_products]"
LazadaLoopBody ==
    /\ scraper = "lazada"
    /\ scrape_pc = "loop"
    /\ position <= Len(Prefix(containers, max_products))
    /\ LET product ==
              lazada_extract_product_with_flash_sale(
                  Prefix(containers, max_products)[position])
       IN  scrape_products' =
              IF product # None THEN Append(scrape_products, product[1])
              ELSE scrape_products
    /\ position' = position + 1
    /\ UNCHANGED <<scraper, soup_selected, containers, max_products, scrape_pc, nonScrapeVars>>

\* the loop is over: the browser is closed, scrape returns products
LazadaReturn ==
    /\ scraper = "lazada"
    /\ scrape_pc = "loop"
    /\ position > Len(Prefix(containers, max_products))
    /\ scrape_pc' = "returned"
    /\ UNCHANGED <<scraper, soup_selected, containers, max_products, position, scrape_products,
                   nonScrapeVars>>

\* FairPriceScraper.scrape: page.goto (or page.content) raises, the outer except
\* prints, the browser is closed and scrape returns the empty products
FairPriceGotoFails ==
    /\ scraper = "fairprice"
    /\ scrape_pc = "goto"
    /\ scrape_pc' = "returned"
    /\ UNCHANGED <<scraper, soup_selected, containers, max_products, position, scrape_products,
                   nonScrapeVars>>

\* the page is loaded and parsed, the containers are selected
FairPriceParse ==
    /\ scraper = "fairprice"
    /\ scrape_pc = "goto"
    /\ scrape_pc' = "loop"
    /\ position' = 1
    /\ containers' = SelectContainers(soup_selected, max_products)
    /\ UNCHANGED <<scraper, soup_selected, max_products, scrape_products, nonScrapeVars>>

\* one iteration of "for container in containers[:max_products]"
FairPriceLoopBody ==
    /\ scraper = "fairprice"
    /\ scrape_pc = "loop"
    /\ position <= Len(Prefix(containers, max_products))
    /\ LET product ==
              FairPriceProduct(
                  Prefix(containers, max_products)[position])
       IN  scrape_products' =
              IF product # None THEN Append(scrape_products, product[1])
              ELSE scrape_products
    /\ position' = position + 1
    /\ UNCHANGED <<scraper, soup_selected, containers, max_products, scrape_pc, nonScrapeVars>>

\* the loop is over: the browser is closed, scrape returns products
FairPriceReturn ==
    /\ scraper = "fairprice"
    /\ scrape_pc = "loop"
    /\ position > Len(Prefix(containers, max_products))
    /\ scrape_pc' = "returned"
    /\ UNCHANGED <<scraper, soup_selected, containers, max_products, position, scrape_products,
                   nonScrapeVars>>

NextScrape ==
    \/ ShopeeGotoFails
    \/ ShopeeParse
    \/ ShopeeLoopBody
    \/ ShopeeReturn
    \/ LazadaGotoFails
    \/ LazadaParse
    \/ LazadaLoopBody
    \/ LazadaReturn
    \/ FairPriceGotoFails
    \/ FairPriceParse
    \/ FairPriceLoopBody
    \/ FairPriceReturn

-----------------------------------------------------------------------------
(* The two queries over the cached entries: get_best_deals and
   get_flash_sales (complete_backend.py).  A response body is a record; an
   absent value (JSON null) is None. *)

\* list.sort(key=lambda x: x[field]) and sorted(...): a stable sort of a list
\* of dicts on one of their fields, ascending, or descending with
\* reverse=True (equal elements keep their order in both)
RECURSIVE SortByField(_, _, _)
SortByField(list, field, reverse) ==
    IF list = <<>> THEN <<>>
    ELSE LET front  == SortByField(SubSeq(list, 1, Len(list) - 1), field, reverse)
             x      == list[Len(list)]
             before == {i \in 1..Len(front) :
                           IF reverse THEN front[i][field] >= x[field]
                           ELSE front[i][field] <= x[field]}
             n      == Cardinality(before)
         IN  SubSeq(front, 1, n) \o <<x>> \o SubSeq(front, n + 1, Len(front))

\* sum(d[field] for d in list)
RECURSIVE SumField(_, _)
SumField(list, field) ==
    IF list = <<>> THEN 0 ELSE list[1][field] + SumField(Tail(list), field)

\* round((part / whole) * 100, 1), in tenths of a percent, on exact cents
PercentTenths(part, whole) == (part * 2000 + whole) \div (2 * whole)

\* d.get(field, default)
Get(d, field, default) == IF field \in DOMAIN d THEN d[field] ELSE default

\* d.get(field): None when the key is absent
GetOrNone(d, field) == IF field \in DOMAIN d THEN Some(d[field]) ELSE None

\* how many deals get_best_deals returns
TOP_DEALS == 10

\* mutant: the worst price is that of the second cheapest offer
BestDealOfSecond(product) ==
    LET sorted_prices == SortByField(product.prices, "price", FALSE)
        best_price    == sorted_prices[1]
        worst_price   == sorted_prices[2]
        savings       == worst_price.price - best_price.price
    IN  IF savings > 0
        THEN <<[product         |-> product.name,
                best_platform   |-> best_price.platform,
                best_price      |-> best_price.price,
                worst_platform  |-> worst_price.platform,
                worst_price     |-> worst_price.price,
                savings         |-> savings,
                savings_percent |-> PercentTenths(savings, worst_price.price)]>>
        ELSE <<>>

\* get_best_deals, the body of its loop for one product with more than one
\* offer: what it appends to best_deals, <<>> or one deal
BestDealOf(product) ==
    LET sorted_prices == SortByField(product.prices, "price", FALSE)
        best_price    == sorted_prices[1]
        worst_price   == sorted_prices[Len(sorted_prices)]
        savings       == worst_price.price - best_price.price
    IN  IF savings > 0
        THEN <<[product         |-> product.name,
                best_platform   |-> best_price.platform,
                best_price      |-> best_price.price,
                worst_platform  |-> worst_price.platform,
                worst_price     |-> worst_price.price,
                savings         |-> savings,
                savings_percent |-> PercentTenths(savings, worst_price.price)]>>
        ELSE <<>>

\* best_deals after the loop over cached_data
BestDealsOf(data) ==
    Concat([i \in 1..Len(data) |->
               IF Len(data[i].prices) > 1 THEN BestDealOf(data[i]) ELSE <<>>])

\* mutant: the total is taken over the deals returned
get_best_deals_total_of_top(data) ==
    LET best_deals == SortByField(BestDealsOf(data), "savings", TRUE)
    IN  [best_deals              |-> Prefix(best_deals, TOP_DEALS),
         total_potential_savings |-> SumField(Prefix(best_deals, TOP_DEALS), "savings")]

\* get_best_deals: the body it answers with, given cached_data
get_best_deals(data) ==
    LET best_deals == SortByField(BestDealsOf(data), "savings", TRUE)
    IN  [best_deals              |-> Prefix(best_deals, TOP_DEALS),
         total_potential_savings |-> SumField(best_deals, "savings")]

\* the all_platforms breakdown of one product
AllPlatformsOf(product) ==
    [i \in 1..Len(product.prices) |->
        [platform        |-> product.prices[i].platform,
         price           |-> product.prices[i].price,
         is_flash_sale   |-> Get(product.prices[i], "flashSale", FALSE),
         flash_sale_type |-> GetOrNone(product.prices[i], "flashSaleType")]]

\* the item get_flash_sales appends for a product, given the offer it shows
FlashSaleItem(product, best_flash_sale) ==
    [product         |-> product.name,
     type            |-> product.type,
     platform        |-> best_flash_sale.platform,
     price           |-> best_flash_sale.price,
     original_price  |-> Get(best_flash_sale, "originalPrice", best_flash_sale.price),
     discount_percent |-> Get(best_flash_sale, "discountPercent", 0),
     flash_sale_type |-> Get(best_flash_sale, "flashSaleType", "flash_sale"),
     flash_sale_end  |-> GetOrNone(best_flash_sale, "flashSaleEnd"),
     url             |-> best_flash_sale.url,
     all_platforms   |-> AsTuple(AllPlatformsOf(product))]

\* mutant: the offer shown is the cheapest of all the offers of the product
FlashSaleOfCheapest(product) ==
    LET flash_sale_prices ==
            SelectSeq(product.prices, LAMBDA p : Get(p, "flashSale", FALSE))
    IN  IF flash_sale_prices # <<>>
        THEN <<FlashSaleItem(product, SortByField(product.prices, "price", FALSE)[1])>>
        ELSE <<>>

\* get_flash_sales, the body of its loop for one product: what it appends to
\* flash_sales, <<>> or one item
FlashSaleOf(product) ==
    LET flash_sale_prices ==
            SelectSeq(product.prices, LAMBDA p : Get(p, "flashSale", FALSE))
    IN  IF flash_sale_prices # <<>>
        THEN <<FlashSaleItem(product, SortByField(flash_sale_prices, "price", FALSE)[1])>>
        ELSE <<>>

\* get_flash_sales: the body it answers with, given cached_data
get_flash_sales(data) ==
    LET flash_sales ==
            SortByField(Concat([i \in 1..Len(data) |-> FlashSaleOf(data[i])]),
                        "discount_percent", TRUE)
    IN  [flash_sales                |-> flash_sales,
         total_flash_sales          |-> Len(flash_sales),
         platforms_with_flash_sales |->
             {flash_sales[i].platform : i \in 1..Len(flash_sales)}]

-----------------------------------------------------------------------------
(* Requests served one at a time, each handler run as a whole: the request
   and the response are kept.  The cache a request meets is the initial one
   or one a scrape cycle has filled. *)

\* Most products the platforms list in a filled cache
MaxQueryProducts == 12

\* Ways the prices and the sale flags are spread over the products
MaxQueryPatterns == 3

QueryName(n) == <<"M","i","l","o"," ">> \o IntStr(n)

QueryUrl(host, n) == <<"h","t","t","p","s",":","/","/">> \o host \o <<"/","m","i","l","o","-">> \o IntStr(n)

\* the listing of product n on FairPrice: the same price everywhere
QueryFairPrice(n) ==
    BasicListing("fairprice", QueryName(n), "other", 1000, 1000,
                 QueryUrl(<<"w","w","w",".","f","a","i","r","p","r","i","c","e",".","c","o","m",".","s","g">>, n))

\* ... on Shopee, under pattern k: a price at or above FairPrice's, an
\* original price at or above it, a flag the detector set from a keyword
QueryShopee(n, k) ==
    LET price          == 1000 + 50 * ((n * k) % 5)
        original_price == price + 100 * ((n + k) % 3)
        flash_sale     == (n + k) % 2 = 0
    IN  FlashListing("shopee", QueryName(n), "other", price, original_price,
                     QueryUrl(<<"s","h","o","p","e","e",".","s","g">>, n), flash_sale,
                     IF flash_sale THEN "flash_sale" ELSE "normal", None,
                     IF original_price > price
                     THEN DiscountTenths(original_price, price) ELSE 0)

\* ... on Lazada: a price around FairPrice's, cut from 12.00, flagged when
\* the cut reaches the threshold
QueryLazada(n, k) ==
    LET price          == 950 + 25 * ((n + k) % 4)
        original_price == 1200
        flash_sale     == DiscountAtLeast(original_price, price,
                                          LAZADA_DISCOUNT_THRESHOLD)
    IN  FlashListing("lazada", QueryName(n), "other", price, original_price,
                     QueryUrl(<<"w","w","w",".","l","a","z","a","d","a",".","s","g">>, n), flash_sale,
                     IF flash_sale THEN "discount" ELSE "normal", None,
                     DiscountTenths(original_price, price))

\* the lists a cycle obtained: FairPrice and Shopee list the products 1..n,
\* Lazada two in three of them, Giant one product more that nobody else has
QueryDict(n, k) ==
    <<[key |-> "fairprice", value |-> [i \in 1..n |-> QueryFairPrice(i)]],
      [key |-> "shopee", value |-> [i \in 1..n |-> QueryShopee(i, k)]],
      [key |-> "lazada",
       value |-> Concat([i \in 1..n |->
                            IF (i + k) % 3 # 0 THEN <<QueryLazada(i, k)>>
                            ELSE <<>>])],
      [key |-> "shengsiong", value |-> <<>>],
      [key |-> "giant",
       value |-> <<BasicListing("giant", QueryName(n + 1), "other", 700, 700,
                                QueryUrl(<<"g","i","a","n","t",".","s","g">>, n + 1))>>]>>

\* the cache after a cycle that obtained these lists at time t
CacheOf(dict, t) ==
    [products     |-> consolidate_products(dict),
     last_updated |-> Some(t),
     by_platform  |-> [p \in PlatformSet |->
                          dict[CHOOSE i \in 1..Len(dict) : dict[i].key = p].value]]

\* one product at 10.00 on FairPrice and at 15.00 on Giant
QueryPairDict ==
    <<[key |-> "fairprice",
       value |-> <<BasicListing("fairprice", NameUht, "uht", 1000, 1000,
                                QueryUrl(<<"w","w","w",".","f","a","i","r","p","r","i","c","e",".","c","o","m",".","s","g">>, 0))>>],
      [key |-> "shopee", value |-> <<>>],
      [key |-> "lazada", value |-> <<>>],
      [key |-> "shengsiong", value |-> <<>>],
      [key |-> "giant",
       value |-> <<BasicListing("giant", NameUht, "uht", 1500, 1500,
                                QueryUrl(<<"g","i","a","n","t",".","s","g">>, 0))>>]>>

QueryCaches ==
    {CacheOf(QueryDict(n, k), 0) :
        n \in 0..MaxQueryProducts, k \in 1..MaxQueryPatterns}
        \cup {CacheOf(QueryPairDict, 0)}

\* how the five scrapers of a cycle may end: each returns its list or raises
CycleOutcomes ==
    {[i \in 1..Len(Platforms) |->
        [platform |-> Platforms[i], returned |-> <<r1, r2, r3, r4, r5>>[i]]] :
        r1 \in {None, Some(Catalog(Platforms[1]))},
        r2 \in {None, Some(Catalog(Platforms[2]))},
        r3 \in {None, Some(Catalog(Platforms[3]))},
        r4 \in {None, Some(Catalog(Platforms[4]))},
        r5 \in {None, Some(Catalog(Platforms[5]))}}

\* all_products_by_platform at the end of the loop of such a cycle
CycleDictOf(results) ==
    [i \in 1..Len(results) |->
        [key   |-> results[i].platform,
         value |-> IF results[i].returned = None THEN <<>>
                   ELSE results[i].returned[1]]] @@ <<>>

\* the cache after the loop: the list of every scraper that returned is stored
RECURSIVE StoreReturned(_, _)
StoreReturned(c, results) ==
    IF results = <<>> THEN c
    ELSE LET last == results[Len(results)]
             c1   == StoreReturned(c, SubSeq(results, 1, Len(results) - 1))
         IN  IF last.returned = None THEN c1
             ELSE by_platform_store(c1, last.platform, last.returned[1])

\* scrape_all_platforms() run as a whole at time t: the cache it leaves
scrape_all_platforms(c, results, t) ==
    update_cache_stamp(
        update_cache_products(StoreReturned(c, results),
                              Consolidated[CycleDictOf(results)]), t)

\* the platforms a client may ask for
QueryPlatforms == RequestPlatforms \cup {"Shopee"}

NoRequest == [route |-> "none", platform |-> None]

InitQuery ==
    /\ cache \in QueryCaches \cup {EmptyCache}
    /\ now \in {0, CACHE_DURATION}
    /\ pc = [t \in Threads |-> "idle"]
    /\ handler = [t \in Threads |-> "none"]
    /\ all_products_by_platform = [t \in Threads |-> <<>>]
    /\ cycle_result = [t \in Threads |-> None]
    /\ cycles = 0
    /\ outcome = [t \in Threads |-> <<>>]
    /\ last_completed = None
    /\ request = NoRequest
    /\ response = None
    /\ scraped = {}

\* the request variables when another specification runs
IdleQuery ==
    /\ request = NoRequest
    /\ response = None
    /\ scraped = {}

\* GET /api/products, get_cached_data() truthy: the cached products
ProductsCached ==
    /\ Truthy(get_cached_data(cache, now))
    /\ request' = [route |-> "products", platform |-> None]
    /\ response' = Some([status |-> 200,
                         body   |-> [products    |-> get_cached_data(cache, now)[1],
                                     lastUpdated |-> cache.last_updated,
                                     source      |-> "cache"]])
    /\ scraped' = {}
    /\ UNCHANGED <<backendVars, nonQueryVars>>

\* GET /api/products, otherwise: scrape_all_platforms() and what it returns
ProductsScraped ==
    /\ ~Truthy(get_cached_data(cache, now))
    /\ \E results \in CycleOutcomes :
          /\ cache' = scrape_all_platforms(cache, results, now)
          /\ response' = Some([status |-> 200,
                               body   |-> [products    |-> Consolidated[CycleDictOf(results)],
                                           lastUpdated |-> Some(now),
                                           source      |-> "fresh_scrape"]])
    /\ request' = [route |-> "products", platform |-> None]
    /\ scraped' = PlatformSet
    /\ UNCHANGED <<now, threadVars, nonQueryVars>>

\* GET /api/best-deals, get_cached_data() truthy
BestDealsCached ==
    /\ Truthy(get_cached_data(cache, now))
    /\ request' = [route |-> "best-deals", platform |-> None]
    /\ response' = Some([status |-> 200,
                         body   |-> get_best_deals(get_cached_data(cache, now)[1])])
    /\ scraped' = {}
    /\ UNCHANGED <<backendVars, nonQueryVars>>

\* GET /api/best-deals, otherwise: scrape_all_platforms() first
BestDealsScraped ==
    /\ ~Truthy(get_cached_data(cache, now))
    /\ \E results \in CycleOutcomes :
          /\ cache' = scrape_all_platforms(cache, results, now)
          /\ response' = Some([status |-> 200,
                               body   |-> get_best_deals(Consolidated[CycleDictOf(results)])])
    /\ request' = [route |-> "best-deals", platform |-> None]
    /\ scraped' = PlatformSet
    /\ UNCHANGED <<now, threadVars, nonQueryVars>>

\* GET /api/flash-sales, get_cached_data() truthy
FlashSalesCached ==
    /\ Truthy(get_cached_data(cache, now))
    /\ request' = [route |-> "flash-sales", platform |-> None]
    /\ response' = Some([status |-> 200,
                         body   |-> get_flash_sales(get_cached_data(cache, now)[1])])
    /\ scraped' = {}
    /\ UNCHANGED <<backendVars, nonQueryVars>>

\* GET /api/flash-sales, otherwise: scrape_all_platforms() first
FlashSalesScraped ==
    /\ ~Truthy(get_cached_data(cache, now))
    /\ \E results \in CycleOutcomes :
          /\ cache' = scrape_all_platforms(cache, results, now)
          /\ response' = Some([status |-> 200,
                               body   |-> get_flash_sales(Consolidated[CycleDictOf(results)])])
    /\ request' = [route |-> "flash-sales", platform |-> None]
    /\ scraped' = PlatformSet
    /\ UNCHANGED <<now, threadVars, nonQueryVars>>

\* mutant: the platform is not validated; scrapers[platform] raises KeyError
\* inside the try and the handler answers 500
PlatformProductsUnchecked(platform) ==
    /\ platform \notin PlatformSet
    /\ request' = [route |-> "platform", platform |-> Some(platform)]
    /\ response' = Some([status |-> 500, body |-> [platform |-> platform]])
    /\ scraped' = {}
    /\ UNCHANGED <<backendVars, nonQueryVars>>

\* GET /api/products/<platform>, platform not one of the five: 400
PlatformProductsInvalid(platform) ==
    /\ platform \notin PlatformSet
    /\ request' = [route |-> "platform", platform |-> Some(platform)]
    /\ response' = Some([status |-> 400, body |-> [error |-> "Invalid platform"]])
    /\ scraped' = {}
    /\ UNCHANGED <<backendVars, nonQueryVars>>

\* ... a platform the cache holds a list of: that list
PlatformProductsCached(platform) ==
    /\ platform \in PlatformSet
    /\ platform \in DOMAIN cache.by_platform
    /\ request' = [route |-> "platform", platform |-> Some(platform)]
    /\ response' = Some([status |-> 200,
                         body   |-> [platform    |-> platform,
                                     products    |-> cache.by_platform[platform],
                                     lastUpdated |-> cache.last_updated]])
    /\ scraped' = {}
    /\ UNCHANGED <<backendVars, nonQueryVars>>

\* mutant: the list the scraper returned is stored in cache['by_platform']
PlatformProductsStored(platform) ==
    /\ platform \in PlatformSet
    /\ platform \notin DOMAIN cache.by_platform
    /\ request' = [route |-> "platform", platform |-> Some(platform)]
    /\ \E returned \in {None} \cup {Some(l) : l \in ScrapeReturns(platform)} :
          /\ response' =
              IF returned # None
              THEN Some([status |-> 200,
                         body   |-> [platform    |-> platform,
                                     products    |-> returned[1],
                                     count       |-> Len(returned[1]),
                                     lastUpdated |-> Some(now)]])
              ELSE Some([status |-> 500, body |-> [platform |-> platform]])
          /\ cache' = IF returned # None
                      THEN by_platform_store(cache, platform, returned[1])
                      ELSE cache
    /\ scraped' = {platform}
    /\ UNCHANGED <<now, threadVars, nonQueryVars>>

\* ... otherwise the platform's scraper is run: 200 with what it returns,
\* 500 when it raises; the cache is left as it is
PlatformProductsScraped(platform) ==
    /\ platform \in PlatformSet
    /\ platform \notin DOMAIN cache.by_platform
    /\ request' = [route |-> "platform", platform |-> Some(platform)]
    /\ \E returned \in {None} \cup {Some(l) : l \in ScrapeReturns(platform)} :
          response' =
              IF returned # None
              THEN Some([status |-> 200,
                         body   |-> [platform    |-> platform,
                                     products    |-> returned[1],
                                     count       |-> Len(returned[1]),
                                     lastUpdated |-> Some(now)]])
              ELSE Some([status |-> 500, body |-> [platform |-> platform]])
    /\ scraped' = {platform}
    /\ UNCHANGED <<backendVars, nonQueryVars>>

NextQuery ==
    \/ ProductsCached
    \/ ProductsScraped
    \/ BestDealsCached
    \/ BestDealsScraped
    \/ FlashSalesCached
    \/ FlashSalesScraped
    \/ \E platform \in QueryPlatforms :
          \/ PlatformProductsInvalid(platform)
          \/ PlatformProductsCached(platform)
          \/ PlatformProductsScraped(platform)

-----------------------------------------------------------------------------
(* A call of BaseScraper._categorize_milo_product(name)
   (multi_platform_scraper.py:26-37) *)

\* Words of a product name
MaxNameWords == 2

\* the words names are made of: every keyword of the three lists, some of
\* them in capitals or inside a longer word, and words that hold no keyword
NameWords ==
    {UhtWords[w] : w \in 1..Len(UhtWords)}
        \cup {PowderWords[w] : w \in 1..Len(PowderWords)}
        \cup {BottleWords[w] : w \in 1..Len(BottleWords)}
        \cup {<<"M","i","l","o">>, <<"U","H","T">>, <<"P","o","w","d","e","r">>,
              <<"B","O","T","T","L","E">>, <<"1","K","G">>,
              <<"D","r","i","n","k","s">>, <<"3","i","n","1">>,
              <<"c","a","n">>}

\* ' '.join(words)
JoinWords(words) ==
    Concat([i \in 1..Len(words) |->
               IF i = 1 THEN words[i] ELSE <<" ">> \o words[i]])

\* the names the categorizer is called on; the empty name is one of them
CategorizerNames == {JoinWords(words) : words \in SeqsUpTo(NameWords, MaxNameWords)}

InitCategorize ==
    /\ product_name \in CategorizerNames
    /\ product_type = None

IdleCategorize ==
    /\ product_name = <<>>
    /\ product_type = None

\* 'type': self._categorize_milo_product(name)
Categorize ==
    /\ product_type = None
    /\ product_type' = Some(_categorize_milo_product(product_name))
    /\ UNCHANGED <<product_name, nonCategorizeVars>>

NextCategorize == Categorize

-----------------------------------------------------------------------------
(* A call of _detect_shopee_flash_sale or _detect_lazada_flash_sale
   (multi_platform_scraper.py:262-321, 446-528), one check a step.  The
   checks read the class attribute and the text of the container's elements
   and the two prices. *)

Detectors == {"shopee", "lazada"}

\* an element of a container, of which the detectors read class and text
Signal(class, text) == [class |-> class, text |-> text]

\* what a container may hold as text: nothing, a keyword of both detectors
\* that holds 'flash', a keyword without it
KeywordParts ==
    {<<>>,
     <<Signal(<<"t","i","t","l","e">>, <<"M","i","l","o"," ","F","l","a","s","h"," ","S","a","l","e">>)>>,
     <<Signal(<<"t","i","t","l","e">>, <<"M","i","l","o"," ","L","i","m","i","t","e","d"," ","T","i","m","e">>)>>}

\* ... as flash badge
FlashBadgeParts == {<<>>, <<Signal(<<"f","l","a","s","h","-","b","a","d","g","e">>, <<>>)>>}

\* ... as sale badge or sale tag: one that holds a word Lazada looks for, one
\* that holds none
SaleTagParts ==
    {<<>>,
     <<Signal(<<"p","r","o","m","o","t","i","o","n","-","t","a","g">>, <<"E","n","d","i","n","g"," ","t","o","d","a","y">>)>>,
     <<Signal(<<"p","r","o","m","o","t","i","o","n","-","t","a","g">>, <<"N","e","w">>)>>}

\* ... as countdown: one with text, one without
TimerParts ==
    {<<>>,
     <<Signal(<<"c","o","u","n","t","d","o","w","n">>, <<" ","0","2",":","1","5",":","3","0"," ">>)>>,
     <<Signal(<<"t","i","m","e","-","l","e","f","t">>, <<" ">>)>>}

\* ... as stock indicator: one that holds a word Lazada looks for, one that
\* holds none
StockParts ==
    {<<>>,
     <<Signal(<<"s","t","o","c","k">>, <<"3"," ","l","e","f","t">>)>>,
     <<Signal(<<"s","t","o","c","k">>, <<"I","n"," ","s","t","o","r","e">>)>>}

DetectContainers ==
    {keyword \o badge \o tag \o timer \o stock :
        keyword \in KeywordParts, badge \in FlashBadgeParts,
        tag \in SaleTagParts, timer \in TimerParts, stock \in StockParts}

\* <<original_price, current_price>> in cents: no cut, cuts below, at and
\* above the two thresholds, a price above the original, no price
DetectPrices ==
    {<<800, 800>>, <<900, 800>>, <<1000, 800>>, <<800, 640>>, <<1000, 850>>,
     <<900, 765>>, <<1000, 600>>, <<800, 1000>>, <<500, 0>>}

Checks(platform) == IF platform = "shopee" THEN SHOPEE_CHECKS ELSE LAZADA_CHECKS

InitDetect ==
    /\ detector \in Detectors
    /\ detect_container \in DetectContainers
    /\ \E prices \in DetectPrices :
          /\ detect_original_price = prices[1]
          /\ detect_current_price = prices[2]
    /\ detect_info = NoFlashInfo
    /\ detect_pc = 0
    /\ detect_result = None
    /\ detect_trace = <<NoFlashInfo>>

\* the detector variables when another specification runs
IdleDetect ==
    /\ detector = "none"
    /\ detect_container = <<>>
    /\ detect_original_price = 0
    /\ detect_current_price = 0
    /\ detect_info = NoFlashInfo
    /\ detect_pc = 0
    /\ detect_result = None
    /\ detect_trace = <<>>

\* the next check of _detect_shopee_flash_sale
ShopeeDetectCheck ==
    /\ detector = "shopee"
    /\ detect_result = None
    /\ detect_pc < SHOPEE_CHECKS
    /\ detect_info' = ShopeeCheck(detect_pc + 1, detect_container, detect_info,
                                  detect_current_price, detect_original_price)
    /\ detect_pc' = detect_pc + 1
    /\ detect_trace' = Append(detect_trace, detect_info')
    /\ UNCHANGED <<detector, detect_container, detect_current_price,
                   detect_original_price, detect_result, nonDetectVars>>

\* return flash_info
ShopeeDetectReturn ==
    /\ detector = "shopee"
    /\ detect_result = None
    /\ detect_pc = SHOPEE_CHECKS
    /\ detect_result' = Some(detect_info)
    /\ UNCHANGED <<detector, detect_container, detect_current_price,
                   detect_original_price, detect_info, detect_pc, detect_trace,
                   nonDetectVars>>

\* the next check of _detect_lazada_flash_sale
LazadaDetectCheck ==
    /\ detector = "lazada"
    /\ detect_result = None
    /\ detect_pc < LAZADA_CHECKS
    /\ detect_info' = LazadaCheck(detect_pc + 1, detect_container, detect_info,
                                  detect_current_price, detect_original_price)
    /\ detect_pc' = detect_pc + 1
    /\ detect_trace' = Append(detect_trace, detect_info')
    /\ UNCHANGED <<detector, detect_container, detect_current_price,
                   detect_original_price, detect_result, nonDetectVars>>

\* return flash_info
LazadaDetectReturn ==
    /\ detector = "lazada"
    /\ detect_result = None
    /\ detect_pc = LAZADA_CHECKS
    /\ detect_result' = Some(detect_info)
    /\ UNCHANGED <<detector, detect_container, detect_current_price,
                   detect_original_price, detect_info, detect_pc, detect_trace,
                   nonDetectVars>>

NextDetect ==
    \/ ShopeeDetectCheck
    \/ ShopeeDetectReturn
    \/ LazadaDetectCheck
    \/ LazadaDetectReturn

-----------------------------------------------------------------------------
(* A call of BaseScraper._extract_price(text)
   (multi_platform_scraper.py:39-47).  The texts are written as what comes
   before the price, a numeral, and what comes after it. *)

\* what a price text may begin with: nothing, currency marks, words
PricePrefixes == {<<>>, <<"$">>, <<"S","$">>, <<"S","G","D"," ">>, <<"N","o","w",":"," ","$">>, <<"U","S","U","A","L"," ","S","$"," ">>}

\* the numerals and their values in cents; a comma separates thousands, the
\* decimals are two at most, a point may end the numeral
PriceNumerals ==
    {<<<<"8">>, 800>>, <<<<"1","2",".","9">>, 1290>>, <<<<"1","2",".","9","0">>, 1290>>, <<<<"1",",","2","3","4",".","5","0">>, 123450>>,
     <<<<"0">>, 0>>, <<<<"0",".","0","0">>, 0>>, <<<<"0",".","0","5">>, 5>>, <<<<"1","5",".">>, 1500>>}

\* what may follow the numeral: nothing, a unit, another number
PriceSuffixes == {<<>>, <<" ","e","a","c","h">>, <<" ","/"," ","2"," ","p","c","s">>, <<" ","(","w","a","s"," ","$","2","0",".","0","0",")">>}

\* texts without any digit; the first is also what a missing text is
PlainTexts == {<<>>, <<"N","/","A">>, <<"$">>, <<"S","$"," ",",">>, <<"S","o","l","d"," ","o","u","t",".">>}

InitExtract ==
    /\ \/ \E prefix \in PricePrefixes, numeral \in PriceNumerals,
             suffix \in PriceSuffixes :
             /\ extract_text = prefix \o numeral[1] \o suffix
             /\ extract_value = Some(numeral[2])
       \/ /\ extract_text \in PlainTexts
          /\ extract_value = None
    /\ extract_result = None

\* the variables of the call when another specification runs
IdleExtract ==
    /\ extract_text = <<>>
    /\ extract_value = None
    /\ extract_result = None

\* price = self._extract_price(text)
ExtractPrice ==
    /\ extract_result = None
    /\ extract_result' = Some(_extract_price(extract_text))
    /\ UNCHANGED <<extract_text, extract_value, nonExtractVars>>

NextExtract == ExtractPrice

-----------------------------------------------------------------------------
(* Specifications *)

\* the process after the module is loaded: the cache empty, no thread in a
\* handler
Init ==
    InitBackend /\ IdleCons /\ IdleFresh /\ IdleScrape /\ IdleQuery
        /\ IdleCategorize /\ IdleDetect /\ IdleExtract

\* a call of consolidate_products on any of the input dicts
InitConsolidate ==
    InitBackend /\ InitCons /\ IdleFresh /\ IdleScrape /\ IdleQuery
        /\ IdleCategorize /\ IdleDetect /\ IdleExtract

\* a call of a scraper's scrape on any of its pages
InitScraper ==
    InitBackend /\ IdleCons /\ IdleFresh /\ InitScrape /\ IdleQuery
        /\ IdleCategorize /\ IdleDetect /\ IdleExtract

\* a process whose cache is empty or filled, about to serve requests
InitQueries ==
    InitQuery /\ IdleCons /\ IdleFresh /\ IdleScrape
        /\ IdleCategorize /\ IdleDetect /\ IdleExtract

\* a call of the categorizer on any of the names
InitCategorizer ==
    InitBackend /\ IdleCons /\ IdleFresh /\ IdleScrape /\ IdleQuery
        /\ InitCategorize /\ IdleDetect /\ IdleExtract

\* a call of a flash-sale detector on any of the containers and prices
InitDetector ==
    InitBackend /\ IdleCons /\ IdleFresh /\ IdleScrape /\ IdleQuery
        /\ IdleCategorize /\ InitDetect /\ IdleExtract

\* a call of _extract_price on any of the texts
InitExtractor ==
    InitBackend /\ IdleCons /\ IdleFresh /\ IdleScrape /\ IdleQuery
        /\ IdleCategorize /\ IdleDetect /\ InitExtract

\* the backend process: the scheduler's job, requests and the clock, any
\* interleaving
Spec ==
    /\ Init
    /\ [][NextBackend]_vars

\* the backend process when no two scrape cycles overlap
SpecSerial ==
    /\ Init
    /\ [][NextSerial]_vars

\* the same, with threads that are scheduled and scrapers that end (their
\* page loads and waits carry timeouts): a thread inside
\* scrape_all_platforms takes its next step
SpecLive ==
    /\ SpecSerial
    /\ \A t \in Threads : WF_vars(CycleStep(t))

\* calls of consolidate_products on dicts of listings
SpecConsolidate ==
    /\ InitConsolidate
    /\ [][NextCons]_vars

\* calls of update_cache and get_cached_data as the clock runs
SpecFresh ==
    /\ Init
    /\ [][NextFresh]_vars

\* requests to the best-deals, flash-sales and platform routes, served one
\* at a time
SpecQuery ==
    /\ InitQueries
    /\ [][NextQuery]_vars

\* runs of the scrapers' scrape on parsed pages
SpecScrape ==
    /\ InitScraper
    /\ [][NextScrape]_vars

\* calls of _categorize_milo_product on product names
SpecCategorize ==
    /\ InitCategorizer
    /\ [][NextCategorize]_vars

\* calls of the Shopee and Lazada flash-sale detectors, check by check
SpecDetect ==
    /\ InitDetector
    /\ [][NextDetect]_vars

\* calls of _extract_price on price texts
SpecExtract ==
    /\ InitExtractor
    /\ [][NextExtract]_vars

-----------------------------------------------------------------------------
(* Properties of the scrape cycle and of the cache *)

\* the list a cycle holds for the i-th platform, given how its scraper ended
ListFor(result) == IF result.returned = None THEN <<>> ELSE result.returned[1]

\* cache['by_platform'] read leniently: no list stored counts as the empty list
CachedList(c, platform) ==
    IF platform \in DOMAIN c.by_platform THEN c.by_platform[platform] ELSE <<>>

\* the value of an ordered dict at a key it holds
ValueAt(dict, k) == dict[CHOOSE i \in 1..Len(dict) : dict[i].key = k].value

\* C1: in a scrape cycle no raise ends the loop: the platforms are taken in
\* order, the cycle reaches its end only with all five taken, the list of a
\* platform whose scraper raised is empty and the list of every other
\* platform is what its scraper returned
C1_FailureIsolated ==
    \A t \in Threads :
        /\ pc[t] # "raised"
        /\ InCycle(t) =>
             /\ Len(all_products_by_platform[t]) = Len(outcome[t])
             /\ pc[t] # "scrape" => Len(outcome[t]) = Len(Platforms)
             /\ \A i \in 1..Len(outcome[t]) :
                   /\ outcome[t][i].platform = Platforms[i]
                   /\ all_products_by_platform[t][i].key = Platforms[i]
                   /\ all_products_by_platform[t][i].value = ListFor(outcome[t][i])

\* C1 witness: a cycle past its loop in which a scraper raised for a platform
\* the cache holds listings of, and a later platform returned listings
C1_Witness ==
    \E t \in Threads :
        /\ pc[t] = "update_stamp"
        /\ \E i, j \in 1..Len(outcome[t]) :
              /\ i < j
              /\ outcome[t][i].returned = None
              /\ CachedList(cache, Platforms[i]) # <<>>
              /\ outcome[t][j].returned # None
              /\ outcome[t][j].returned[1] # <<>>

\* C2: at every state the cache is the initial one, or its entries, its
\* per-platform lists and its stamp are those the last completed cycle
\* published
C2_SnapshotFromOneCycle ==
    \/ cache = EmptyCache
    \/ /\ last_completed # None
       /\ cache.products = last_completed[1].products
       /\ cache.last_updated = last_completed[1].last_updated
       /\ \A p \in PlatformSet :
             CachedList(cache, p) = ValueAt(last_completed[1].by_platform, p)

\* C3: at most one scrape cycle is running
C3_AtMostOneCycle == Cardinality({t \in Threads : InCycle(t)}) <= 1

\* C4: when a cycle has completed (none overlapping it), the cache holds for
\* each platform the list this cycle obtained, empty if the platform failed,
\* and the entries are the consolidation of those lists
C4_SnapshotReplaced ==
    \A t \in Threads :
        pc[t] = "cycle_done" =>
            /\ \A i \in 1..Len(Platforms) :
                  CachedList(cache, Platforms[i]) = ListFor(outcome[t][i])
            /\ cache.products =
                  consolidate_products(
                      [i \in 1..Len(Platforms) |->
                          [key   |-> Platforms[i],
                           value |-> CachedList(cache, Platforms[i])]])

\* the cycle of thread t has returned
Returned(t) == pc[t] = "cycle_done"

\* what holds of a cycle that has returned
ReturnedRight(t) ==
    /\ Len(outcome[t]) = Len(Platforms)
    /\ cycle_result[t] = Some(consolidate_products(all_products_by_platform[t]))
    /\ cache.last_updated # None
    /\ (\A i \in 1..Len(Platforms) : outcome[t][i].returned = None)
          => cycle_result[t] = Some(<<>>)

\* C5: every started cycle returns; it has then taken each of the five
\* platforms, has a consolidated result (no entries when all five failed)
\* and the stamp is set; no raise leaves the cycle
C5_CycleTerminates ==
    /\ [](\A t \in Threads :
             /\ pc[t] # "raised"
             /\ Returned(t) => ReturnedRight(t))
    /\ \A t \in Threads : InCycle(t) ~> Returned(t)

\* C5 witness: a cycle returned after all five scrapers raised
C5_Witness ==
    \E t \in Threads :
        /\ Returned(t)
        /\ \A i \in 1..Len(Platforms) : outcome[t][i].returned = None
        /\ cycle_result[t] = Some(<<>>)
        /\ cache.last_updated # None

\* C6: get_cached_data returns the cached entries exactly when last_updated
\* is set and the time elapsed since, days included, is less than 3600
\* seconds; otherwise it returns None
C6_FreshIffWithinTtl ==
    cached_data # None =>
        IF cache.last_updated # None /\ now - cache.last_updated[1] < 3600
        THEN cached_data[1] = Some(cache.products)
        ELSE cached_data[1] = None

\* C7: every listing a scraper returns with flash_sale true and both prices
\* above 0 has original_price >= price
C7_PromotedImpliesOrdered ==
    \A i \in 1..Len(scrape_products) :
        (/\ scrape_products[i].flash_sale
         /\ scrape_products[i].price > 0
         /\ scrape_products[i].original_price > 0)
            => scrape_products[i].original_price >= scrape_products[i].price

-----------------------------------------------------------------------------
(* Properties of consolidate_products, checked under SpecConsolidate *)

\* the entries returned by the last call
Entries == consolidated[1]

\* the offer of entry e that was built from listing x (a url names one
\* product of one platform)
HasOfferOf(e, x) ==
    \E i \in 1..Len(e.prices) :
        e.prices[i].platform = x.platform /\ e.prices[i].url = x.url

\* the grouping key as the specification words it: the first 20 characters
\* of the name, lower-cased, spaces removed
StatedKey(name) ==
    LET cut == [i \in 1..Min(Len(name), 20) |-> name[i]]
    IN  SelectSeq([i \in 1..Len(cut) |-> LowerChar(cut[i])],
                  LAMBDA c : c # " ")

\* indices in all_products of the first listing of each key
FirstSeen(all) ==
    LET keys == AsTuple([i \in 1..Len(all) |-> StatedKey(all[i].name)])
    IN  {i \in 1..Len(all) : \A j \in 1..(i - 1) : keys[j] # keys[i]}

\* C8: no entry returned by consolidate_products holds two offers of the
\* same platform
C8_OneOfferPerPlatform ==
    consolidated # None =>
        \A k \in 1..Len(Entries) :
            \A i, j \in 1..Len(Entries[k].prices) :
                i # j => Entries[k].prices[i].platform # Entries[k].prices[j].platform

\* C9: two listings of the input are in the same entry exactly when their
\* keys (first 20 characters, lower-cased, spaces removed) are equal
C9_SameEntryIffSameKey ==
    consolidated # None =>
        LET all  == AllProducts(products_by_platform)
            keys == AsTuple([a \in 1..Len(all) |-> StatedKey(all[a].name)])
            home == AsTuple([a \in 1..Len(all) |->
                        {k \in 1..Len(Entries) : HasOfferOf(Entries[k], all[a])}])
        IN  \A a, b \in 1..Len(all) :
                (home[a] \cap home[b] # {}) <=> (keys[a] = keys[b])

\* C9 witness: a call whose input held the two sachet names of the example
\* (one entry) and the two Activ Go names, which differ only in spaces and
\* fall into two entries
C9_Witness ==
    /\ consolidated # None
    /\ LET all == AllProducts(products_by_platform)
       IN  /\ \E a, b \in 1..Len(all) :
                /\ all[a].name = NameSachet20
                /\ all[b].name = NameSachetBundle
                /\ \E k \in 1..Len(Entries) :
                      HasOfferOf(Entries[k], all[a]) /\ HasOfferOf(Entries[k], all[b])
           /\ \E a, b \in 1..Len(all) :
                /\ all[a].name = NameActivSpaced
                /\ all[b].name = NameActivTight
                /\ ~ \E k \in 1..Len(Entries) :
                      HasOfferOf(Entries[k], all[a]) /\ HasOfferOf(Entries[k], all[b])

\* C10: the ids are 1..N in the order the keys are first met, the list is
\* in id order, and each entry has the name and type of the first listing
\* of its key; this holds for every call
C10_IdsInFirstSeenOrder ==
    consolidated # None =>
        LET all    == AllProducts(products_by_platform)
            firsts == FirstSeen(all)
        IN  /\ Len(Entries) = Cardinality(firsts)
            /\ \A f \in firsts :
                 LET r == Cardinality({g \in firsts : g <= f})
                 IN  /\ Entries[r].id = r
                     /\ Entries[r].name = all[f].name
                     /\ Entries[r].type = all[f].type

\* C10 witness: a second call, on the reversed dict, returned three or more
\* entries, one of which holds a later listing with another name and type
C10_Witness ==
    /\ consolidated # None
    /\ calls > 1
    /\ Len(Entries) >= 3
    /\ LET all == AllProducts(products_by_platform)
       IN  \E a, b \in 1..Len(all) :
              /\ a < b
              /\ a \in FirstSeen(all)
              /\ a > 1
              /\ StatedKey(all[a].name) = StatedKey(all[b].name)
              /\ all[a].name # all[b].name
              /\ all[a].type # all[b].type

StatedOffer(x) ==
    [platform      |-> x.platform,
     price         |-> x.price,
     originalPrice |-> x.original_price,
     flashSale     |-> x.flash_sale,
     url           |-> x.url]

\* those five fields of an offer
OfferCore(o) ==
    [platform      |-> o.platform,
     price         |-> o.price,
     originalPrice |-> o.originalPrice,
     flashSale     |-> o.flashSale,
     url           |-> o.url]

\* the listings of the input that have the key of entry e, as encountered
ListingsOfEntry(all, e) ==
    SelectSeq(all, LAMBDA x : StatedKey(x.name) = StatedKey(e.name))

\* C30: the offers of all returned entries are as many as the listings of the
\* input; the offers of an entry are, one for one and in the order met, the
\* listings of its key, each with the platform, price, original price,
\* promotion flag and url of its listing
C30_OffersAreTheListings ==
    consolidated # None =>
        LET all == AllProducts(products_by_platform)
        IN  /\ Len(Concat([k \in 1..Len(Entries) |-> Entries[k].prices])) = Len(all)
            /\ \A k \in 1..Len(Entries) :
                  LET mine == ListingsOfEntry(all, Entries[k])
                  IN  /\ Len(Entries[k].prices) = Len(mine)
                      /\ \A j \in 1..Len(mine) :
                            OfferCore(Entries[k].prices[j]) = StatedOffer(mine[j])

\* C30 witness: a call on five or more listings returned fewer entries than
\* listings, one entry holding three or more offers, two of them built from
\* listings with different prices and a cut original price
C30_Witness ==
    /\ consolidated # None
    /\ Len(AllProducts(products_by_platform)) >= 5
    /\ Len(Entries) < Len(AllProducts(products_by_platform))
    /\ \E k \in 1..Len(Entries) :
          /\ Len(Entries[k].prices) >= 3
          /\ \E i, j \in 1..Len(Entries[k].prices) :
                /\ i < j
                /\ Entries[k].prices[i].price # Entries[k].prices[j].price
                /\ Entries[k].prices[j].originalPrice > Entries[k].prices[j].price

-----------------------------------------------------------------------------
(* Properties of the listings a scraper returns, checked under SpecScrape *)

\* the listings returned so far that carry a discount_percent
WithDiscount ==
    {i \in 1..Len(scrape_products) : "discount_percent" \in DOMAIN scrape_products[i]}

\* tenths is part / whole * 100 rounded to one decimal, given in tenths of a
\* percent: no other tenth is nearer to the quotient
IsPercentRounded(tenths, part, whole) ==
    LET gap == tenths * whole - part * 1000
    IN  /\ 2 * gap <= whole
        /\ 2 * gap >= 0 - whole

\* C12: a listing with a discount_percent whose flash_sale flag is false has
\* discount_percent 0
C12_NoDiscountUnlessPromoted ==
    \A i \in WithDiscount :
        ~scrape_products[i].flash_sale => scrape_products[i].discount_percent = 0

\* C13: the discount_percent of a listing is (original_price - price) /
\* original_price * 100 rounded to one decimal when original_price > price > 0
\* and 0 otherwise, whatever flash_sale and flash_sale_type are
C13_DiscountFromPricesOnly ==
    \A i \in WithDiscount :
        LET l == scrape_products[i]
        IN  IF l.original_price > l.price /\ l.price > 0
            THEN IsPercentRounded(l.discount_percent,
                                  l.original_price - l.price, l.original_price)
            ELSE l.discount_percent = 0

\* C13 witness: a returned Lazada listing cut from 9.00 to 8.00 carries 11.1
\* though the detector left it unflagged
C13_Witness ==
    /\ scrape_pc = "returned"
    /\ \E i \in WithDiscount :
          /\ scrape_products[i].platform = "lazada"
          /\ scrape_products[i].original_price = 900
          /\ scrape_products[i].price = 800
          /\ ~scrape_products[i].flash_sale
          /\ scrape_products[i].flash_sale_type = "normal"
          /\ scrape_products[i].discount_percent = 111

\* C18: every listing a scraper has appended has a name that is not empty (a
\* container whose name resolves to nothing, or to the empty string, yields
\* no listing), and the loop goes on to the containers after it
C18_ListingsAreNamed ==
    /\ \A i \in 1..Len(scrape_products) : scrape_products[i].name # <<>>
    /\ scrape_pc = "returned" /\ position > 0
          => position > Len(Prefix(containers, max_products))

\* C19: every listing a scraper has appended has a price above 0
C19_PricesArePositive ==
    \A i \in 1..Len(scrape_products) : scrape_products[i].price > 0

-----------------------------------------------------------------------------
(* Properties of the queries, checked under SpecQuery.  The entries a query
   answered from are cache.products: the cached list it read, or the list
   its own scrape cycle has just stored. *)

OfferPrices(entry) == {entry.prices[i].price : i \in 1..Len(entry.prices)}

LowestPrice(entry) == CHOOSE x \in OfferPrices(entry) : \A y \in OfferPrices(entry) : x <= y

HighestPrice(entry) == CHOOSE x \in OfferPrices(entry) : \A y \in OfferPrices(entry) : x >= y

\* an entry with two offers or more whose highest price exceeds its lowest
Qualifies(entry) ==
    Len(entry.prices) >= 2 /\ HighestPrice(entry) > LowestPrice(entry)

\* the savings of the qualifying entries among the first n, summed
RECURSIVE QualifyingSavings(_, _)
QualifyingSavings(entries, n) ==
    IF n = 0 THEN 0
    ELSE QualifyingSavings(entries, n - 1)
            + (IF Qualifies(entries[n])
               THEN HighestPrice(entries[n]) - LowestPrice(entries[n]) ELSE 0)

\* the last request was a best-deals query, answered
BestDealsAnswered == request.route = "best-deals" /\ response # None

\* the entry a deal or a flash-sale item names (an entry's name is its own)
EntryNamed(entries, name) ==
    entries[CHOOSE k \in 1..Len(entries) : entries[k].name = name]

\* C14: a best-deals answer lists at most 10 deals, one per qualifying entry,
\* in non-increasing order of savings; no qualifying entry left out saves
\* more than a listed one; total_potential_savings is the sum of the savings
\* of all qualifying entries
C14_TopTenBySavings ==
    BestDealsAnswered =>
        LET entries    == cache.products
            deals      == response[1].body.best_deals
            qualifying == {k \in 1..Len(entries) : Qualifies(entries[k])}
            listed     == {k \in qualifying :
                              \E d \in 1..Len(deals) : deals[d].product = entries[k].name}
        IN  /\ Len(deals) <= 10
            /\ Len(deals) = Min(10, Cardinality(qualifying))
            /\ Cardinality(listed) = Len(deals)
            /\ \A d \in 1..Len(deals) :
                  /\ \E k \in listed :
                        /\ deals[d].product = entries[k].name
                        /\ deals[d].savings =
                              HighestPrice(entries[k]) - LowestPrice(entries[k])
                  /\ d > 1 => deals[d - 1].savings >= deals[d].savings
                  /\ \A k \in qualifying \ listed :
                        HighestPrice(entries[k]) - LowestPrice(entries[k])
                            <= deals[d].savings
            /\ response[1].body.total_potential_savings =
                  QualifyingSavings(entries, Len(entries))

\* C14 witness: a best-deals answer from a cache with more than 10 qualifying
\* entries: 10 deals, of unequal savings, and a total above their sum
C14_Witness ==
    /\ BestDealsAnswered
    /\ Cardinality({k \in 1..Len(cache.products) : Qualifies(cache.products[k])}) > 10
    /\ Len(response[1].body.best_deals) = 10
    /\ response[1].body.best_deals[1].savings > response[1].body.best_deals[10].savings
    /\ response[1].body.total_potential_savings
          > SumField(response[1].body.best_deals, "savings")

\* C15: each deal of a best-deals answer has the lowest offer price of its
\* entry as best_price and the highest as worst_price, the platforms of
\* offers at those prices, savings = worst_price - best_price and
\* savings_percent = savings / worst_price * 100 rounded to one decimal
C15_DealFigures ==
    BestDealsAnswered =>
        \A d \in 1..Len(response[1].body.best_deals) :
            LET deal  == response[1].body.best_deals[d]
                entry == EntryNamed(cache.products, deal.product)
            IN  /\ deal.best_price = LowestPrice(entry)
                /\ deal.worst_price = HighestPrice(entry)
                /\ \E i \in 1..Len(entry.prices) :
                      /\ entry.prices[i].platform = deal.best_platform
                      /\ entry.prices[i].price = deal.best_price
                /\ \E i \in 1..Len(entry.prices) :
                      /\ entry.prices[i].platform = deal.worst_platform
                      /\ entry.prices[i].price = deal.worst_price
                /\ deal.savings = deal.worst_price - deal.best_price
                /\ IsPercentRounded(deal.savings_percent, deal.savings,
                                    deal.worst_price)

\* C15 witness: the deal of an entry offered at 10.00 on FairPrice and at
\* 15.00 on Giant: savings 5.00 and 33.3 percent
C15_Witness ==
    /\ BestDealsAnswered
    /\ \E d \in 1..Len(response[1].body.best_deals) :
          response[1].body.best_deals[d] =
              [product         |-> NameUht,
               best_platform   |-> "fairprice",
               best_price      |-> 1000,
               worst_platform  |-> "giant",
               worst_price     |-> 1500,
               savings         |-> 500,
               savings_percent |-> 333]

\* the offers of an entry that carry the promotion flag
Promoted(entry) == {i \in 1..Len(entry.prices) : entry.prices[i].flashSale}

\* the last request was a flash-sales query, answered
FlashSalesAnswered == request.route = "flash-sales" /\ response # None

\* C16: a flash-sales answer has one item for each entry with a promoted
\* offer and no other; the item shows a promoted offer of the lowest price
\* among the promoted ones; its all_platforms has one element per offer, in
\* order, with that offer's platform, price and flag; the items are in
\* non-increasing order of discount_percent
C16_FlashSalesItems ==
    FlashSalesAnswered =>
        LET entries == cache.products
            items   == response[1].body.flash_sales
            flagged == {k \in 1..Len(entries) : Promoted(entries[k]) # {}}
        IN  /\ Len(items) = Cardinality(flagged)
            /\ \A k \in flagged : \E j \in 1..Len(items) : items[j].product = entries[k].name
            /\ \A j \in 1..Len(items) :
                  /\ \E k \in flagged : items[j].product = entries[k].name
                  /\ LET entry == EntryNamed(entries, items[j].product)
                     IN  /\ \E i \in Promoted(entry) :
                               /\ entry.prices[i].platform = items[j].platform
                               /\ entry.prices[i].price = items[j].price
                               /\ entry.prices[i].url = items[j].url
                         /\ \A i \in Promoted(entry) : items[j].price <= entry.prices[i].price
                         /\ Len(items[j].all_platforms) = Len(entry.prices)
                         /\ \A i \in 1..Len(entry.prices) :
                               /\ items[j].all_platforms[i].platform = entry.prices[i].platform
                               /\ items[j].all_platforms[i].price = entry.prices[i].price
                               /\ items[j].all_platforms[i].is_flash_sale = entry.prices[i].flashSale
                  /\ j > 1 => items[j - 1].discount_percent >= items[j].discount_percent

\* C16 witness: a flash-sales answer with items of unequal discount, from a
\* cache with an entry without promoted offer, one item showing a promoted
\* offer that is not the cheapest offer of its entry, one item of an entry
\* with three offers
C16_Witness ==
    /\ FlashSalesAnswered
    /\ Len(response[1].body.flash_sales) >= 2
    /\ Len(response[1].body.flash_sales) < Len(cache.products)
    /\ response[1].body.flash_sales[1].discount_percent
          > response[1].body.flash_sales[Len(response[1].body.flash_sales)].discount_percent
    /\ \E j \in 1..Len(response[1].body.flash_sales) :
          LET item == response[1].body.flash_sales[j]
          IN  item.price > LowestPrice(EntryNamed(cache.products, item.product))
    /\ \E j \in 1..Len(response[1].body.flash_sales) :
          Len(response[1].body.flash_sales[j].all_platforms) >= 3

\* C17: a request for the products of a platform that is not one of the five
\* is answered 400, runs no scraper and leaves the cache as it was
C17_InvalidPlatformRejected ==
    [][(request'.route = "platform" /\ request'.platform[1] \notin PlatformSet)
          => /\ response' # None
             /\ response'[1].status = 400
             /\ scraped' = {}
             /\ cache' = cache
             /\ cycles' = cycles]_vars

\* C17 witness: "amazon" was asked for of a process whose cache is filled,
\* and 400 was answered
C17_Witness ==
    /\ request = [route |-> "platform", platform |-> Some("amazon")]
    /\ response # None
    /\ response[1].status = 400
    /\ cache.last_updated # None
    /\ DOMAIN cache.by_platform # {}

\* the three endpoints that read the snapshot through get_cached_data
ReadRoutes == {"products", "best-deals", "flash-sales"}

\* the handler met a cache that get_cached_data() returns: the stamp is set
\* and less than CACHE_DURATION old
WithinTtl == get_cached_data(cache, now) # None

\* C27: a request to /api/products, /api/best-deals or /api/flash-sales that
\* meets a snapshot within its TTL is answered from the cache and starts no
\* scrape cycle, also when the snapshot holds no entries
C27_FreshSnapshotServed ==
    [][(WithinTtl /\ request'.route \in ReadRoutes)
          => /\ scraped' = {}
             /\ cache' = cache]_vars

\* C28: a request for the products of one of the five platforms is never
\* answered with the cached list of a snapshot older than the TTL
C28_PlatformListingsFresh ==
    [][(/\ request'.route = "platform"
        /\ request'.platform[1] \in PlatformSet
        /\ response'[1].status = 200
        /\ scraped' = {})
          => WithinTtl]_vars

\* C29: a request for the products of a platform leaves the cache as it was
\* in every branch; a valid platform without a cached list is scraped, and
\* only that platform, and the same request right after is scraped again
C29_PlatformQueryKeepsCache ==
    [][request'.route = "platform"
          => /\ cache' = cache
             /\ (/\ request'.platform[1] \in PlatformSet
                 /\ request'.platform[1] \notin DOMAIN cache.by_platform)
                   => scraped' = {request'.platform[1]}
             /\ (/\ request' = request
                 /\ scraped # {})
                   => scraped' = scraped]_vars

\* C29 witness: a platform whose scraper raised in the last full cycle was
\* asked for; its scraper was run and returned listings, and the cache still
\* holds no list for it
C29_Witness ==
    /\ request.route = "platform"
    /\ request.platform[1] \in PlatformSet
    /\ scraped = {request.platform[1]}
    /\ response # None
    /\ response[1].status = 200
    /\ response[1].body.products # <<>>
    /\ cache.last_updated # None
    /\ DOMAIN cache.by_platform # {}
    /\ request.platform[1] \notin DOMAIN cache.by_platform

-----------------------------------------------------------------------------
(* Properties of the categorizer *)

\* the lower-cased name holds a word of the list
NameHolds(words) ==
    \E w \in 1..Len(words) : Contains(Lower(product_name), words[w])

\* C20: the categorizer returns one of uht, powder, bottle, other for every
\* name: uht when the name holds a uht keyword, whatever else it holds;
\* powder when it holds a powder keyword and no uht keyword; bottle when it
\* holds a bottle keyword and none of the other two lists; other when it
\* holds no keyword
C20_CategorizerPriority ==
    product_type # None =>
        /\ product_type[1] \in {"uht", "powder", "bottle", "other"}
        /\ NameHolds(UhtWords) => product_type[1] = "uht"
        /\ (~NameHolds(UhtWords) /\ NameHolds(PowderWords))
              => product_type[1] = "powder"
        /\ (~NameHolds(UhtWords) /\ ~NameHolds(PowderWords)
                /\ NameHolds(BottleWords))
              => product_type[1] = "bottle"
        /\ (~NameHolds(UhtWords) /\ ~NameHolds(PowderWords)
                /\ ~NameHolds(BottleWords))
              => product_type[1] = "other"

\* C20 witness: "UHT powder", which holds a uht and a powder keyword, was
\* categorized uht
C20_Witness ==
    /\ product_name = <<"U","H","T"," ","p","o","w","d","e","r">>
    /\ NameHolds(UhtWords)
    /\ NameHolds(PowderWords)
    /\ product_type = Some("uht")

-----------------------------------------------------------------------------
(* Properties of the flash-sale detectors *)

\* the detector has returned
Detected == detect_result # None

\* C22: in a run of a detector, once a check has assigned a kind other than
\* normal no later check assigns another, and is_flash_sale, once true,
\* stays true
C22_FirstKindKept ==
    \A i \in 1..Len(detect_trace) : \A j \in i..Len(detect_trace) :
        /\ detect_trace[i].sale_type # "normal"
              => detect_trace[j].sale_type = detect_trace[i].sale_type
        /\ detect_trace[i].is_flash_sale => detect_trace[j].is_flash_sale

\* flash_info before the last check, the numeric fallback
BeforeFallback == detect_trace[Len(detect_trace) - 1]

\* original_price > price > 0 and the cut is 20 percent of the original
\* price or more on Shopee, 15 percent or more on Lazada
CutMeetsThreshold ==
    /\ detect_original_price > detect_current_price
    /\ detect_current_price > 0
    /\ DiscountAtLeastExact(detect_original_price, detect_current_price,
                            IF detector = "shopee" THEN 20 ELSE 15)

\* C23: a detector returns the kind discount, with is_flash_sale true, if
\* and only if no check before the fallback fired, original_price > price > 0
\* and the cut meets the platform's threshold
C23_FallbackIffThresholdMet ==
    Detected =>
        /\ detect_result[1].sale_type = "discount"
              <=> (~BeforeFallback.is_flash_sale /\ CutMeetsThreshold)
        /\ detect_result[1].sale_type = "discount"
              => detect_result[1].is_flash_sale

\* the countdown elements of the container
Timers ==
    SelectSeq(detect_container,
              LAMBDA e : \/ Contains(e.class, <<"c","o","u","n","t","d","o","w","n">>)
                         \/ Contains(e.class, <<"t","i","m","e","r">>)
                         \/ Contains(e.class, <<"t","i","m","e","-","l","e","f","t">>))

\* flash_info before the countdown check: after the keyword, the flash badge
\* and the sale badge or tag
BeforeTimer == detect_trace[4]

\* C24: when the container holds a countdown element the detector returns
\* is_flash_sale true, the kind flash_sale if no check before the countdown
\* assigned one and else the kind assigned before it, and as ends_at the
\* stripped text of the countdown, or 'Soon' when that is empty
C24_TimerForcesPromotion ==
    (Detected /\ Timers # <<>>) =>
        /\ detect_result[1].is_flash_sale
        /\ detect_result[1].sale_type =
              (IF BeforeTimer.sale_type = "normal" THEN "flash_sale"
               ELSE BeforeTimer.sale_type)
        /\ detect_result[1].ends_at =
              (IF Strip(Timers[1].text) = <<>> THEN Some(<<"S","o","o","n">>)
               ELSE Some(Strip(Timers[1].text)))

\* C24 witness: Shopee's detector returned on a container with a promotion
\* badge and a countdown without text: the kind of the badge is kept and
\* ends_at is 'Soon'
C24_Witness ==
    /\ Detected
    /\ detector = "shopee"
    /\ Timers # <<>>
    /\ Strip(Timers[1].text) = <<>>
    /\ BeforeTimer.sale_type = "shopee_sale"
    /\ detect_result[1] = [is_flash_sale |-> TRUE, sale_type |-> "shopee_sale",
                           ends_at |-> Some(<<"S","o","o","n">>)]

\* the elements that fire no check of the detector: for Lazada a tag and a
\* stock indicator without any of the words looked for, for Shopee any
\* stock indicator
QuietSignals ==
    IF detector = "lazada"
    THEN {Signal(<<"p","r","o","m","o","t","i","o","n","-","t","a","g">>, <<"N","e","w">>), Signal(<<"s","t","o","c","k">>, <<"I","n"," ","s","t","o","r","e">>)}
    ELSE {Signal(<<"s","t","o","c","k">>, <<"3"," ","l","e","f","t">>), Signal(<<"s","t","o","c","k">>, <<"I","n"," ","s","t","o","r","e">>)}

\* no signal fires: the container holds quiet elements only and the cut, if
\* any, is below the threshold
NoSignal ==
    /\ \A i \in 1..Len(detect_container) : detect_container[i] \in QuietSignals
    /\ ~CutMeetsThreshold

\* C26: in flash_info, at every point of a detector's run and in what it
\* returns, is_flash_sale is false exactly when the kind is normal, and
\* ends_at is set only when is_flash_sale is true; when no signal fires the
\* detector returns is_flash_sale false, kind normal, ends_at None
C26_FlagMatchesKind ==
    /\ \A i \in 1..Len(detect_trace) :
          /\ detect_trace[i].is_flash_sale <=> detect_trace[i].sale_type # "normal"
          /\ detect_trace[i].ends_at # None => detect_trace[i].is_flash_sale
    /\ Detected =>
          /\ detect_result[1].is_flash_sale <=> detect_result[1].sale_type # "normal"
          /\ detect_result[1].ends_at # None => detect_result[1].is_flash_sale
          /\ NoSignal =>
                detect_result[1] = [is_flash_sale |-> FALSE,
                                    sale_type |-> "normal", ends_at |-> None]

\* C26 witness: Lazada's detector returned on a container with a tag and a
\* stock indicator that hold none of the words, at a cut of 11.1 percent
C26_Witness ==
    /\ Detected
    /\ detector = "lazada"
    /\ detect_container =
          <<Signal(<<"p","r","o","m","o","t","i","o","n","-","t","a","g">>, <<"N","e","w">>), Signal(<<"s","t","o","c","k">>, <<"I","n"," ","s","t","o","r","e">>)>>
    /\ detect_original_price = 900
    /\ detect_current_price = 800
    /\ detect_result[1] = [is_flash_sale |-> FALSE, sale_type |-> "normal",
                           ends_at |-> None]

-----------------------------------------------------------------------------
(* Properties of the scrapers' loop over the containers *)

\* what the running scraper makes of one container: None or Some(listing)
ExtractOf(container) ==
    CASE scraper = "shopee" -> shopee_extract_product_with_flash_sale(container)
      [] scraper = "lazada" -> lazada_extract_product_with_flash_sale(container)
      [] scraper = "fairprice" -> FairPriceProduct(container)

\* what the first of the three selectors that matches anything matches
FirstMatching ==
    IF soup_selected[1] # <<>> THEN soup_selected[1]
    ELSE IF soup_selected[2] # <<>> THEN soup_selected[2]
    ELSE soup_selected[3]

\* scrape has returned after its loop
LoopReturned == scrape_pc = "returned" /\ position > 0

\* C25: scrape returns at most max_products listings: those of the first
\* max_products containers of the first selector that matches, in the order
\* of the containers, a container without listing among them taking its
\* place in the count
C25_AtMostMaxContainers ==
    LoopReturned =>
        LET considered ==
                IF Len(FirstMatching) < max_products THEN Len(FirstMatching)
                ELSE max_products
        IN  /\ Len(scrape_products) <= max_products
            /\ scrape_products =
                  Concat([i \in 1..considered |->
                             IF ExtractOf(FirstMatching[i]) = None THEN <<>>
                             ELSE <<ExtractOf(FirstMatching[i])[1]>>])

\* C25 witness: with max_products = 1, on a page where only the third
\* selector matches, a container without name and then a product, scrape
\* returned no listing
C25_Witness ==
    /\ LoopReturned
    /\ max_products = 1
    /\ soup_selected[1] = <<>>
    /\ soup_selected[2] = <<>>
    /\ Len(soup_selected[3]) = 2
    /\ ExtractOf(soup_selected[3][1]) = None
    /\ ExtractOf(soup_selected[3][2]) # None
    /\ scrape_products = <<>>

-----------------------------------------------------------------------------
(* Properties of the price parser *)

\* the text holds a digit once ',', '$' and 'S' are removed
HoldsDigit(text) ==
    \E i \in 1..Len(text) : text[i] \notin {",", "$", "S"} /\ IsDigit(text[i])

\* C21 as stated: _extract_price returns a number that is not negative, 0.0
\* exactly when the text holds no digit, and else the value of the first
\* numeral of the text
C21_ZeroExactlyWithoutDigit ==
    extract_result # None =>
        /\ extract_result[1] >= 0
        /\ extract_result[1] = 0 <=> ~HoldsDigit(extract_text)
        /\ HoldsDigit(extract_text) => extract_result[1] = extract_value[1]

\* C21: _extract_price returns a number that is not negative: 0.0 when the
\* text holds no digit, and else the value of the first numeral of the text,
\* which is 0.0 when that numeral is zero
C21_PriceOfFirstNumeral ==
    extract_result # None =>
        /\ extract_result[1] >= 0
        /\ ~HoldsDigit(extract_text) => extract_result[1] = 0
        /\ HoldsDigit(extract_text) => extract_result[1] = extract_value[1]

\* C21 witness: '$1,234.50' gave 1234.50
C21_Witness ==
    /\ extract_text = <<"$","1",",","2","3","4",".","5","0">>
    /\ extract_result = Some(123450)

=============================================================================
